---- MODULE Spec2Model ----
(***************************************************************************)
(* The HDB resale dashboard's aggregation pipeline (utils/dataProcessor.ts), *)
(* the hook that drives it (hooks/useHdbData) and the stacked bar chart's   *)
(* display transform (components/LineChart.tsx), as a state machine.        *)
(*                                                                          *)
(* Representation                                                           *)
(*  - A text that the code parses (month, resale_price, floor_area_sqm,     *)
(*    remaining_lease) is a sequence of one-character strings, so that the  *)
(*    parsers are computed character by character.  town and flat_type are  *)
(*    only compared and tested for emptiness and stay plain strings.        *)
(*  - A JavaScript number | NaN | null | undefined is a tagged record.      *)
(*  - Arithmetic is exact arithmetic on scaled integers.  Each quantity     *)
(*    states its unit where it is defined; every operation applied to it    *)
(*    (ordering, linear interpolation, fences, maxima, padding) commutes    *)
(*    with a positive scale factor.  The percentages of the stacked bar     *)
(*    chart, whose sum depends on rounding, are IEEE 754 doubles.           *)
(***************************************************************************)
EXTENDS Integers, Sequences, FiniteSets, TLC

\* ------------------------------------------------------------------------
\* JavaScript values
\* ------------------------------------------------------------------------

NaN == [tag |-> "NaN", v |-> 0]

null == [tag |-> "null", v |-> 0]

undefined == [tag |-> "undefined", v |-> 0]

Num(x) == [tag |-> "number", v |-> x]

IsNum(x) == x.tag = "number"

\* isNaN(x): ToNumber(undefined) is NaN, ToNumber(null) is 0.
isNaN(x) == x.tag \in {"NaN", "undefined"}

\* An absent optional text field (floor_area_sqm?, remaining_lease?).
UndefinedText == <<"undefined">>

\* JavaScript truthiness of a text: undefined and "" are falsy.
Truthy(s) == s # UndefinedText /\ s # <<>>

\* ------------------------------------------------------------------------
\* Characters and decimal numerals
\* ------------------------------------------------------------------------

\* The value of each decimal digit.
DigitValues ==
    "0" :> 0 @@ "1" :> 1 @@ "2" :> 2 @@ "3" :> 3 @@ "4" :> 4 @@
    "5" :> 5 @@ "6" :> 6 @@ "7" :> 7 @@ "8" :> 8 @@ "9" :> 9

IsDigit(c) == c \in DOMAIN DigitValues

DigitVal(c) == DigitValues[c]

\* \s of a regular expression, over the characters the inputs use.
IsSpace(c) == c \in {" ", "\t"}

\* The first index at or after i whose character is not a digit.
RECURSIVE DigitsEnd(_, _)
DigitsEnd(s, i) ==
    IF i <= Len(s) /\ IsDigit(s[i]) THEN DigitsEnd(s, i + 1) ELSE i

\* The first index at or after i whose character is not white space.
RECURSIVE SpacesEnd(_, _)
SpacesEnd(s, i) ==
    IF i <= Len(s) /\ IsSpace(s[i]) THEN SpacesEnd(s, i + 1) ELSE i

\* The value of the decimal numeral s[i..j-1].
RECURSIVE DecimalValue(_, _, _)
DecimalValue(s, i, j) ==
    IF j <= i THEN 0 ELSE 10 * DecimalValue(s, i, j - 1) + DigitVal(s[j - 1])

\* s[i..] starts with the literal word w.
StartsWith(s, i, w) ==
    /\ i + Len(w) - 1 <= Len(s)
    /\ \A k \in 1..Len(w) : s[i + k - 1] = w[k]

\* parseFloat on the longest leading run of digits; NaN when there is none.
\* (Sign, leading blanks, fraction and exponent are not in the input
\* alphabet: the API serves prices and areas as unsigned integers.)
parseFloat(s) ==
    IF s = UndefinedText THEN NaN
    ELSE LET e == DigitsEnd(s, 1)
         IN  IF e = 1 THEN NaN ELSE Num(DecimalValue(s, 1, e))

\* parseInt(s, 10) of a captured group of digits.
parseInt(s) == DecimalValue(s, 1, Len(s) + 1)

\* ------------------------------------------------------------------------
\* Inputs: the texts and the records the aggregators are applied to
\* ------------------------------------------------------------------------

\* "2023-12" and "2024-01": two consecutive months across a year boundary.
Month1 == <<"2", "0", "2", "3", "-", "1", "2">>

Month2 == <<"2", "0", "2", "4", "-", "0", "1">>

Months == {Month1, Month2}

Price200k == <<"2", "0", "0", "0", "0", "0">>

Price500k == <<"5", "0", "0", "0", "0", "0">>

Price1m == <<"1", "0", "0", "0", "0", "0", "0">>

\* The two band boundaries of the price categories that the prices above
\* are not.
Price300k == <<"3", "0", "0", "0", "0", "0">>

Price800k == <<"8", "0", "0", "0", "0", "0">>

\* A price text that does not parse as a number.
PriceBad == <<"N", "A">>

Area50 == <<"5", "0">>

Area100 == <<"1", "0", "0">>

Lease60 == <<"6", "0", " ", "y", "e", "a", "r", "s">>

Lease90 == <<"9", "0", " ", "y", "e", "a", "r", "s">>

\* "22 years 06 months": a lease that is not a whole number of years.
Lease22y6m ==
    <<"2", "2", " ", "y", "e", "a", "r", "s", " ", "0", "6", " ",
      "m", "o", "n", "t", "h", "s">>

BoxPlotMetrics == {"resale_price", "price_psf", "price_per_lease"}

\* The most records a collection holds.
MaxRecords == 10

\* HdbResaleRecord (types.ts).
HdbResaleRecord(month, town, flat_type, resale_price, floor_area_sqm, remaining_lease) ==
    [month |-> month, town |-> town, flat_type |-> flat_type,
     resale_price |-> resale_price, floor_area_sqm |-> floor_area_sqm,
     remaining_lease |-> remaining_lease]

\* A dear small flat and a cheap large flat of the first month, and a flat of
\* the second month.
HighRecord == HdbResaleRecord(Month1, "BEDOK", "4 ROOM", Price1m, Area50, Lease60)

LowRecord == HdbResaleRecord(Month1, "ANG MO KIO", "3 ROOM", Price200k, Area100, Lease90)

OtherRecord == HdbResaleRecord(Month2, "BEDOK", "4 ROOM", Price500k, Area100, Lease90)

\* Records of the first month, at a price between the two, that lack one
\* field each.
MidRecord == HdbResaleRecord(Month1, "BEDOK", "3 ROOM", Price500k, Area100, Lease90)

DefectKinds == {"badPrice", "noTown", "noFlatType", "noArea", "noLease"}

DefectRecord(kind) ==
    CASE kind = "badPrice" -> [MidRecord EXCEPT !.resale_price = PriceBad]
      [] kind = "noTown" -> [MidRecord EXCEPT !.town = ""]
      [] kind = "noFlatType" -> [MidRecord EXCEPT !.flat_type = ""]
      [] kind = "noArea" -> [MidRecord EXCEPT !.floor_area_sqm = UndefinedText]
      [] kind = "noLease" -> [MidRecord EXCEPT !.remaining_lease = UndefinedText]

\* A record of the first month that is defective, or has a lease with
\* months, or a price on a band boundary.
VariantKinds == DefectKinds \cup {"leaseMonths", "price300k", "price800k"}

VariantRecord(kind) ==
    CASE kind = "leaseMonths" -> [MidRecord EXCEPT !.remaining_lease = Lease22y6m]
      [] kind = "price300k" -> [MidRecord EXCEPT !.resale_price = Price300k]
      [] kind = "price800k" -> [MidRecord EXCEPT !.resale_price = Price800k]
      [] OTHER -> DefectRecord(kind)

RECURSIVE Repeat(_, _)
Repeat(x, n) == IF n = 0 THEN <<>> ELSE <<x>> \o Repeat(x, n - 1)

\* A record collection: some records of the second month, then dear ones of
\* the first month, at most one variant record, then cheap ones: grouped
\* neither by month in chronological order nor by ascending value.
RecordCollections ==
    { Repeat(OtherRecord, c.other) \o Repeat(HighRecord, c.high)
        \o (IF c.defect = "none" THEN <<>> ELSE <<VariantRecord(c.defect)>>)
        \o Repeat(LowRecord, c.low) :
      c \in { v \in [other : 0..MaxRecords, high : 0..MaxRecords,
                     low : 0..MaxRecords, defect : VariantKinds \cup {"none"}] :
              v.other + v.high + v.low + (IF v.defect = "none" THEN 0 ELSE 1)
                  <= MaxRecords } }

\* Every period domain without a repeated month, in every order.
PeriodDomains ==
    {<<>>} \cup { <<m>> : m \in Months }
           \cup { d \in { <<m, n>> : m \in Months, n \in Months } : d[1] # d[2] }

\* ------------------------------------------------------------------------
\* Units
\* ------------------------------------------------------------------------

RECURSIVE Gcd(_, _)
Gcd(a, b) == IF b = 0 THEN a ELSE Gcd(b, a % b)

Lcm(a, b) == (a * b) \div Gcd(a, b)

RECURSIVE LcmUpTo(_)
LcmUpTo(n) == IF n <= 1 THEN 1 ELSE Lcm(LcmUpTo(n - 1), n)

\* price_psf = price / (area * 10.7639) is held in units of
\* 1 / (AreaUnit * 10.7639) dollars per square foot, where AreaUnit is the
\* least common multiple of the areas in the inputs: price * (AreaUnit / area).
AreaUnit == Lcm(parseFloat(Area50).v, parseFloat(Area100).v)

\* ------------------------------------------------------------------------
\* JavaScript Date
\* ------------------------------------------------------------------------

IsLeapYear(y) == (y % 4 = 0 /\ y % 100 # 0) \/ y % 400 = 0

DaysInMonth(y, m) ==
    IF m = 2 THEN (IF IsLeapYear(y) THEN 29 ELSE 28)
    ELSE IF m \in {4, 6, 9, 11} THEN 30 ELSE 31

RECURSIVE DaysBeforeMonth(_, _)
DaysBeforeMonth(y, m) ==
    IF m <= 1 THEN 0 ELSE DaysBeforeMonth(y, m - 1) + DaysInMonth(y, m - 1)

\* Days from 1970-01-01 to the first day of year y (y >= 1970).
DaysBeforeYear(y) ==
    365 * (y - 1970) + ((y - 1969) \div 4) - ((y - 1901) \div 100)
        + ((y - 1601) \div 400)

\* new Date(month).getTime() for a "YYYY-MM" text, in days since the epoch
\* (getTime() is this number times 86400000); NaN for any other text.
DaysOfYearMonth(y, m) ==
    IF m \in 1..12 /\ y >= 1970
    THEN Num(DaysBeforeYear(y) + DaysBeforeMonth(y, m))
    ELSE NaN

DateGetTime(month) ==
    IF /\ Len(month) = 7
       /\ DigitsEnd(month, 1) = 5
       /\ month[5] = "-"
       /\ DigitsEnd(month, 6) = 8
    THEN DaysOfYearMonth(DecimalValue(month, 1, 5), DecimalValue(month, 6, 8))
    ELSE NaN

\* ------------------------------------------------------------------------
\* parseRemainingLeaseToYears
\* ------------------------------------------------------------------------

YearWord == <<"y", "e", "a", "r">>

MonthWord == <<"m", "o", "n", "t", "h">>

\* /(\d+)\s+years?(?:\s+(\d+)\s+months?)?/ tried at index i of s: the
\* positions of its parts, each the end (exclusive) of a greedy run.
\* (?:\s+(\d+)\s+months?)? after the years part that ends before y2: the
\* digits s[w2..d2-1], or undefined when the group does not take part.
LeaseMonthsGroup(s, y2, w2, d2, w3) ==
    IF w2 > y2 /\ d2 > w2 /\ w3 > d2 /\ StartsWith(s, w3, MonthWord)
    THEN SubSeq(s, w2, d2 - 1)
    ELSE UndefinedText

LeaseMonthsDigits(s, y2, w2, d2) == LeaseMonthsGroup(s, y2, w2, d2, SpacesEnd(s, d2))

LeaseMonthsSpaces(s, y2, w2) == LeaseMonthsDigits(s, y2, w2, DigitsEnd(s, w2))

LeaseMonthsAfter(s, y2) == LeaseMonthsSpaces(s, y2, SpacesEnd(s, y2))

\* The index after "year" and an optional "s", for "year" at index w1.
LeaseYearWordEnd(s, w1) ==
    IF w1 + Len(YearWord) <= Len(s) /\ s[w1 + Len(YearWord)] = "s"
    THEN w1 + Len(YearWord) + 1
    ELSE w1 + Len(YearWord)

\* (\d+)\s+years? for digits s[i..d1-1] and white space s[d1..w1-1].
LeaseYearsGroup(s, i, d1, w1) ==
    IF d1 > i /\ w1 > d1 /\ StartsWith(s, w1, YearWord)
    THEN [matched |-> TRUE,
          years |-> SubSeq(s, i, d1 - 1),
          months |-> LeaseMonthsAfter(s, LeaseYearWordEnd(s, w1))]
    ELSE [matched |-> FALSE, years |-> <<>>, months |-> UndefinedText]

LeaseYearsDigits(s, i, d1) == LeaseYearsGroup(s, i, d1, SpacesEnd(s, d1))

LeaseMatchAt(s, i) == LeaseYearsDigits(s, i, DigitsEnd(s, i))

\* leaseStr.match(...): the leftmost match at or after index i, or null;
\* LeaseMatchOr takes the attempt at index i.
RECURSIVE LeaseMatch(_, _)
RECURSIVE LeaseMatchOr(_, _, _)
LeaseMatchOr(attempt, s, i) ==
    IF attempt.matched THEN attempt ELSE LeaseMatch(s, i + 1)

LeaseMatch(s, i) ==
    IF i > Len(s) THEN null ELSE LeaseMatchOr(LeaseMatchAt(s, i), s, i)

\* years + months / 12 of a match, in twelfths of a year; null for no match.
LeaseOfMatch(match) ==
    IF match = null THEN null
    ELSE Num(12 * parseInt(match.years)
               + (IF Truthy(match.months) THEN parseInt(match.months) ELSE 0))

\* parseRemainingLeaseToYears returning the years of the match alone.
ParseRemainingLeaseToWholeYears(text) ==
    IF ~Truthy(text) \/ LeaseMatch(text, 1) = null THEN null
    ELSE Num(12 * parseInt(LeaseMatch(text, 1).years))

\* The lease in twelfths of a year (12 * years + months), or null.
parseRemainingLeaseToYears(text) ==
    IF ~Truthy(text) THEN null ELSE LeaseOfMatch(LeaseMatch(text, 1))

\* price_per_lease = price / lease_years is held in units of 12 / LeaseUnit
\* dollars per year, where LeaseUnit is the least common multiple of the
\* leases (in twelfths of a year) in the inputs: price * (LeaseUnit / lease).
LeaseUnit ==
    Lcm(Lcm(parseRemainingLeaseToYears(Lease60).v,
            parseRemainingLeaseToYears(Lease90).v),
        parseRemainingLeaseToYears(Lease22y6m).v)

\* ------------------------------------------------------------------------
\* d3-array and Array.prototype helpers
\* ------------------------------------------------------------------------

\* arr.map(f) for a sequence (the concatenation makes the result a tuple
\* whose elements are computed once).
Map(seq, f(_)) == <<>> \o [i \in 1..Len(seq) |-> f(seq[i])]

RECURSIVE InsertAscending(_, _)
InsertAscending(sorted, x) ==
    IF sorted = <<>> THEN <<x>>
    ELSE IF sorted[Len(sorted)] <= x THEN Append(sorted, x)
    ELSE Append(InsertAscending(SubSeq(sorted, 1, Len(sorted) - 1), x),
                sorted[Len(sorted)])

\* values.sort(d3.ascending) on numbers.
RECURSIVE SortAscending(_)
SortAscending(values) ==
    IF values = <<>> THEN <<>>
    ELSE InsertAscending(SortAscending(SubSeq(values, 1, Len(values) - 1)),
                         values[Len(values)])

\* d3.min / d3.max of a sequence of numbers: undefined when it is empty.
d3min(values) ==
    IF values = <<>> THEN undefined
    ELSE Num(CHOOSE x \in {values[i] : i \in 1..Len(values)} :
                 \A j \in 1..Len(values) : x <= values[j])

d3max(values) ==
    IF values = <<>> THEN undefined
    ELSE Num(CHOOSE x \in {values[i] : i \in 1..Len(values)} :
                 \A j \in 1..Len(values) : x >= values[j])

RECURSIVE d3sum(_)
d3sum(values) ==
    IF values = <<>> THEN 0
    ELSE d3sum(SubSeq(values, 1, Len(values) - 1)) + values[Len(values)]

\* x ?? fallback
OrElse(x, fallback) == IF x.tag \in {"undefined", "null"} THEN fallback ELSE x

\* d3.quantile(values, p4 / 4) by linear interpolation between the order
\* statistics around (n - 1) * p: FOUR TIMES the quantile (an integer for
\* p in {1/4, 2/4, 3/4}); undefined for no values.
QuantileSorted(sorted, p4) ==
    LET n == Len(sorted)
        i4 == (n - 1) * p4
        i0 == i4 \div 4
    IN  IF n = 0 THEN undefined
        ELSE IF p4 <= 0 \/ n < 2 THEN Num(4 * sorted[1])
        ELSE IF p4 >= 4 THEN Num(4 * sorted[n])
        ELSE Num(4 * sorted[i0 + 1]
                   + (sorted[i0 + 2] - sorted[i0 + 1]) * (i4 - 4 * i0))

d3quantile(values, p4) == QuantileSorted(SortAscending(values), p4)

\* A key joins the keys of a Map when it is not among them.
AddKey(keys, key) ==
    IF \E i \in 1..Len(keys) : keys[i] = key THEN keys ELSE Append(keys, key)

\* The keys of d3.group(records, d => d.month), in order of first occurrence.
RECURSIVE GroupKeys(_)
GroupKeys(records) ==
    IF records = <<>> THEN <<>>
    ELSE AddKey(GroupKeys(SubSeq(records, 1, Len(records) - 1)),
                records[Len(records)].month)

\* d3.group(records, d => d.month).get(month): the records of the month in
\* their order, <<>> standing for undefined (a group is never empty).
GroupGet(records, month) ==
    LET InMonth(r) == r.month = month IN SelectSeq(records, InMonth)

\* ------------------------------------------------------------------------
\* Record normalisation
\* ------------------------------------------------------------------------

\* { price, area_sqm, lease_years } of a record.
Normalize(r) ==
    [price |-> parseFloat(r.resale_price),
     area_sqm |-> IF Truthy(r.floor_area_sqm) THEN parseFloat(r.floor_area_sqm) ELSE NaN,
     lease_years |-> parseRemainingLeaseToYears(r.remaining_lease)]

\* resale_price / (area_sqm * SQM_TO_SQFT_CONVERSION), in psf units.
PricePerSqft(price, area_sqm) ==
    IF isNaN(price) THEN NaN ELSE Num(price.v * (AreaUnit \div area_sqm.v))

\* resale_price / lease_years, in per-lease units.
PricePerLease(price, lease_years) ==
    IF isNaN(price) THEN NaN ELSE Num(price.v * (LeaseUnit \div lease_years.v))

\* The metric value of a normalised record: a number, NaN or null.
MetricOf(n, metric) ==
    IF metric = "resale_price" THEN n.price
    ELSE IF metric = "price_psf" /\ ~isNaN(n.area_sqm) /\ n.area_sqm.v > 0
         THEN PricePerSqft(n.price, n.area_sqm)
    ELSE IF metric = "price_per_lease" /\ n.lease_years # null
            /\ n.lease_years.v > 0
         THEN PricePerLease(n.price, n.lease_years)
    ELSE null

\* The metric value of a record.
MetricValue(r, metric) == MetricOf(Normalize(r), metric)

\* ------------------------------------------------------------------------
\* Box plot: processRecordGroup, calculateBoxPlotData
\*
\* Every number of a BoxPlotStats (min, q1, median, q3, max and an
\* outlier's price) is held as FOUR TIMES its value in the metric's unit, a
\* fence as EIGHT TIMES its value, so that quartiles and fences are integers.
\* ------------------------------------------------------------------------

\* The object the .map of processRecordGroup builds for a record.
ProcessedOf(r, n, metric) ==
    [value |-> MetricOf(n, metric),
     resale_price |-> n.price,
     flat_type |-> r.flat_type,
     town |-> r.town,
     remaining_lease |-> r.remaining_lease,
     floor_area_sqm |-> r.floor_area_sqm]

ProcessedRecord(r, metric) == ProcessedOf(r, Normalize(r), metric)

\* The .filter of processRecordGroup.
KeepProcessed(p) ==
    p.value # null /\ ~isNaN(p.value) /\ p.flat_type # "" /\ p.town # ""

\* processedRecords of a group: the records with a metric value, a flat type
\* and a town, in their order.
ProcessedRecords(records, metric) ==
    LET Build(r) == ProcessedRecord(r, metric)
    IN  SelectSeq(Map(records, Build), KeepProcessed)

\* EnoughDataPoints with the threshold off by one.
EnoughDataPointsFromFour(processedRecords) == ~(Len(processedRecords) < 4)

\* "Need enough data points".
EnoughDataPoints(processedRecords) == ~(Len(processedRecords) < 5)

\* q1 - 1.5 * iqr and q3 + 1.5 * iqr (times eight; q1, q3 times four).
LowerFence(q1, q3) == 2 * q1 - 3 * (q3 - q1)

UpperFence(q1, q3) == 2 * q3 + 3 * (q3 - q1)

\* IsOutlier with the fences themselves counted as outside.
IsOutlierInclusive(value, lowerFence, upperFence) ==
    8 * value <= lowerFence \/ 8 * value >= upperFence

\* r.value < lowerFence || r.value > upperFence
IsOutlier(value, lowerFence, upperFence) ==
    8 * value < lowerFence \/ 8 * value > upperFence

\* r.value >= lowerFence && r.value <= upperFence
IsNonOutlier(value, lowerFence, upperFence) ==
    8 * value >= lowerFence /\ 8 * value <= upperFence

\* An Outlier (types.ts) of a processed record.
Outlier(p) ==
    [price |-> 4 * p.value.v,
     resale_price |-> p.resale_price,
     flat_type |-> p.flat_type,
     town |-> p.town,
     remaining_lease |-> p.remaining_lease,
     floor_area_sqm |-> p.floor_area_sqm]

\* processedRecords.filter(outside the fences).map(to Outlier)
OutlierRecords(processedRecords, lowerFence, upperFence) ==
    LET Out(p) == IsOutlier(p.value.v, lowerFence, upperFence)
    IN  Map(SelectSeq(processedRecords, Out), Outlier)

\* NonOutlierValues without its filter: every value.
NonOutlierValuesUnfiltered(processedRecords, lowerFence, upperFence) ==
    LET Value(p) == p.value.v IN Map(processedRecords, Value)

\* processedRecords.filter(inside the fences).map(r => r.value)
NonOutlierValues(processedRecords, lowerFence, upperFence) ==
    LET In(p) == IsNonOutlier(p.value.v, lowerFence, upperFence)
        Value(p) == p.value.v
    IN  Map(SelectSeq(processedRecords, In), Value)

\* d3.min(nonOutlierValues) ?? q1 and d3.max(nonOutlierValues) ?? q3
WhiskerMin(nonOutlierValues, q1) ==
    LET m == d3min(nonOutlierValues) IN IF IsNum(m) THEN 4 * m.v ELSE q1

WhiskerMax(nonOutlierValues, q3) ==
    LET m == d3max(nonOutlierValues) IN IF IsNum(m) THEN 4 * m.v ELSE q3

\* The BoxPlotStats of one month's records, or null.
\* The returned object, from the quartiles and the fences on.
StatsOfFences(month, processedRecords, q1, median, q3, lowerFence, upperFence) ==
    [month |-> month,
     min |-> WhiskerMin(NonOutlierValues(processedRecords, lowerFence, upperFence), q1),
     q1 |-> q1,
     median |-> median,
     q3 |-> q3,
     max |-> WhiskerMax(NonOutlierValues(processedRecords, lowerFence, upperFence), q3),
     outliers |-> OutlierRecords(processedRecords, lowerFence, upperFence)]

StatsOfQuartiles(month, processedRecords, q1, median, q3) ==
    StatsOfFences(month, processedRecords, q1, median, q3,
                  LowerFence(q1, q3), UpperFence(q1, q3))

StatsOfSorted(month, processedRecords, sortedValues) ==
    StatsOfQuartiles(month, processedRecords,
                     OrElse(d3quantile(sortedValues, 1), Num(0)).v,
                     OrElse(d3quantile(sortedValues, 2), Num(0)).v,
                     OrElse(d3quantile(sortedValues, 3), Num(0)).v)

\* processRecordGroup from its processedRecords on.
StatsOfProcessed(month, processedRecords) ==
    LET Value(p) == p.value.v
    IN  IF ~EnoughDataPoints(processedRecords) THEN null
        ELSE StatsOfSorted(month, processedRecords,
                           SortAscending(Map(processedRecords, Value)))

processRecordGroup(records, metric) ==
    IF Len(records) = 0 THEN null
    ELSE StatsOfProcessed(records[1].month, ProcessedRecords(records, metric))

\* new Date(a).getTime() - new Date(b).getTime() as a sort comparator;
\* Array.prototype.sort reads a NaN result as 0.
CompareTimes(ta, tb) == IF isNaN(ta) \/ isNaN(tb) THEN 0 ELSE ta.v - tb.v

CompareDates(a, b) == CompareTimes(DateGetTime(a), DateGetTime(b))

\* The comparator of calculateBoxPlotData's sort.
CompareByMonth(a, b) == CompareDates(a.month, b.month)

RECURSIVE InsertByMonth(_, _)
InsertByMonth(sorted, x) ==
    IF sorted = <<>> THEN <<x>>
    ELSE IF CompareByMonth(sorted[Len(sorted)], x) <= 0 THEN Append(sorted, x)
    ELSE Append(InsertByMonth(SubSeq(sorted, 1, Len(sorted) - 1), x),
                sorted[Len(sorted)])

\* SortByMonth left out: data as the loop pushed it.
SortByMonthOmitted(data) == data

\* SortByMonth with the comparator's operands swapped: latest month first.
RECURSIVE SortByMonthDescending(_)
SortByMonthDescending(data) ==
    IF data = <<>> THEN <<>>
    ELSE LET x == data[Len(data)]
             rest == SortByMonthDescending(SubSeq(data, 1, Len(data) - 1))
             After(e) == CompareByMonth(x, e) > 0
             NotAfter(e) == ~After(e)
         IN  SelectSeq(rest, NotAfter) \o <<x>> \o SelectSeq(rest, After)

\* data.sort(by month): Array.prototype.sort is stable.
RECURSIVE SortByMonth(_)
SortByMonth(data) ==
    IF data = <<>> THEN <<>>
    ELSE InsertByMonth(SortByMonth(SubSeq(data, 1, Len(data) - 1)), data[Len(data)])

\* if (monthRecords) processRecordGroup(monthRecords, metric)
StatsOfMonth(monthRecords, metric) ==
    IF monthRecords = <<>> THEN null ELSE processRecordGroup(monthRecords, metric)

\* if (stats) data.push(stats)
PushStats(data, stats) == IF stats # null THEN Append(data, stats) ELSE data

\* The loop of calculateBoxPlotData over xDomain: the stats pushed to data.
RECURSIVE BoxPlotLoop(_, _, _)
BoxPlotLoop(records, xDomain, metric) ==
    IF xDomain = <<>> THEN <<>>
    ELSE PushStats(BoxPlotLoop(records, SubSeq(xDomain, 1, Len(xDomain) - 1), metric),
                   StatsOfMonth(GroupGet(records, xDomain[Len(xDomain)]), metric))

calculateBoxPlotData(records, xDomain, metric) ==
    IF Len(records) = 0 THEN <<>>
    ELSE SortByMonth(BoxPlotLoop(records, xDomain, metric))

\* ------------------------------------------------------------------------
\* Domains
\*
\* A domain [lo, hi] is a record: literal = TRUE for a fallback written in
\* the source as a literal (hi is that literal, in the metric's natural
\* unit); literal = FALSE for a domain computed from data, whose upper bound
\* is hi / per in the unit of the numbers it was computed from.
\* ------------------------------------------------------------------------

LiteralDomain(lo, hi) == [lo |-> lo, hi |-> hi, per |-> 1, literal |-> TRUE]

DataDomain(hi, per) == [lo |-> 0, hi |-> hi, per |-> per, literal |-> FALSE]

\* MonthMax without the outliers.
MonthMaxOfWhiskers(stats) == stats.max

\* d3.max([stats.max, ...stats.outliers.map(o => o.price)]) ?? 0
MonthMax(stats) ==
    LET Price(o) == o.price
    IN  OrElse(d3max(<<stats.max>> \o Map(stats.outliers, Price)), Num(0)).v

\* if (monthMax > globalMax) globalMax = monthMax
LargerMax(globalMax, monthMax) == IF monthMax > globalMax THEN monthMax ELSE globalMax

\* if (stats) { ... }
RaiseGlobalMax(globalMax, stats) ==
    IF stats # null THEN LargerMax(globalMax, MonthMax(stats)) ELSE globalMax

\* The loop of calculateGlobalYDomain over the month groups: globalMax
\* (times four, as the stats are).
RECURSIVE GlobalMaxLoop(_, _, _)
GlobalMaxLoop(records, months, metric) ==
    IF months = <<>> THEN 0
    ELSE RaiseGlobalMax(
             GlobalMaxLoop(records, SubSeq(months, 1, Len(months) - 1), metric),
             processRecordGroup(GroupGet(records, months[Len(months)]), metric))

\* [0, globalMax * 1.05]: globalMax is held times 4, so hi is per 400.
calculateGlobalYDomain(records, metric) ==
    IF Len(records) = 0 THEN LiteralDomain(0, 1000000)
    ELSE DataDomain(GlobalMaxLoop(records, GroupKeys(records), metric) * 105, 400)

\* ------------------------------------------------------------------------
\* calculateSummaryStats and calculateLineChartData: the valid records
\*
\* transactionCount and grossTransactionValue are held as they are,
\* median_psf and median_price_per_lease as FOUR TIMES the median (psf and
\* per-lease units), millionDollarTransactionPercentage in units of
\* 1 / PercentUnit percent.
\* ------------------------------------------------------------------------

\* Every percentage k / n * 100 with n <= MaxRecords is a whole number of
\* these units.
PercentUnit == LcmUpTo(MaxRecords)

\* .filter(r => !isNaN(r.price)) of the normalised records.
ValidRecords(records) ==
    LET HasPrice(n) == ~isNaN(n.price) IN SelectSeq(Map(records, Normalize), HasPrice)

\* PsfValues of the records that have a lease as well.
PsfValuesOfCompleteRecords(validRecords) ==
    LET HasArea(n) ==
            /\ ~isNaN(n.area_sqm) /\ n.area_sqm.v > 0
            /\ n.lease_years # null /\ n.lease_years.v > 0
        Psf(n) == PricePerSqft(n.price, n.area_sqm).v
    IN  SortAscending(Map(SelectSeq(validRecords, HasArea), Psf))

\* validPsfRecords mapped to their price per square foot, sorted ascending.
PsfValues(validRecords) ==
    LET HasArea(n) == ~isNaN(n.area_sqm) /\ n.area_sqm.v > 0
        Psf(n) == PricePerSqft(n.price, n.area_sqm).v
    IN  SortAscending(Map(SelectSeq(validRecords, HasArea), Psf))

\* validLeaseRecords mapped to their price per lease year, sorted ascending.
PricePerLeaseValues(validRecords) ==
    LET HasLease(n) == n.lease_years # null /\ n.lease_years.v > 0
        PerLease(n) == PricePerLease(n.price, n.lease_years).v
    IN  SortAscending(Map(SelectSeq(validRecords, HasLease), PerLease))

\* MillionDollarPercentage counting the prices above 1000000 only.
MillionDollarPercentageStrict(prices) ==
    LET IsMillion(p) == p > 1000000
    IN  IF Len(prices) > 0
        THEN (Len(SelectSeq(prices, IsMillion)) * 100 * PercentUnit) \div Len(prices)
        ELSE 0

\* prices.length > 0 ? (millionDollarTransactions / prices.length) * 100 : 0
MillionDollarPercentage(prices) ==
    LET IsMillion(p) == p >= 1000000
    IN  IF Len(prices) > 0
        THEN (Len(SelectSeq(prices, IsMillion)) * 100 * PercentUnit) \div Len(prices)
        ELSE 0

\* ------------------------------------------------------------------------
\* calculateSummaryStats
\* ------------------------------------------------------------------------

\* { count: 0 }: every other field of SummaryStatsData is undefined.
CountZero ==
    [count |-> 0,
     median |-> undefined, min |-> undefined, max |-> undefined,
     median_psf |-> undefined, min_psf |-> undefined, max_psf |-> undefined,
     grossTransactionValue |-> undefined,
     median_price_per_lease |-> undefined,
     min_price_per_lease |-> undefined, max_price_per_lease |-> undefined,
     millionDollarTransactionPercentage |-> undefined]

\* values.length > 0 ? values[0] : undefined
FirstOrUndefined(values) == IF Len(values) > 0 THEN Num(values[1]) ELSE undefined

\* values.length > 0 ? values[values.length - 1] : undefined
LastOrUndefined(values) ==
    IF Len(values) > 0 THEN Num(values[Len(values)]) ELSE undefined

\* The returned object, of the three sorted lists: the medians are FOUR
\* TIMES the quantile, the psf and per-lease fields in their units, the
\* percentage in units of 1 / PercentUnit.
SummaryOf(prices, psfValues, pricePerLeaseValues) ==
    [count |-> Len(prices),
     median |-> QuantileSorted(prices, 2),
     min |-> FirstOrUndefined(prices),
     max |-> LastOrUndefined(prices),
     median_psf |-> QuantileSorted(psfValues, 2),
     min_psf |-> FirstOrUndefined(psfValues),
     max_psf |-> LastOrUndefined(psfValues),
     grossTransactionValue |-> Num(d3sum(prices)),
     median_price_per_lease |-> QuantileSorted(pricePerLeaseValues, 2),
     min_price_per_lease |-> FirstOrUndefined(pricePerLeaseValues),
     max_price_per_lease |-> LastOrUndefined(pricePerLeaseValues),
     millionDollarTransactionPercentage |-> Num(MillionDollarPercentage(prices))]

\* prices: validRecords.map(r => r.price).sort(d3.ascending)
SortedPrices(validRecords) ==
    LET Price(n) == n.price.v IN SortAscending(Map(validRecords, Price))

\* SummaryOfValid without the return of { count: 0 } for no valid record.
SummaryOfValidUnguarded(validRecords) ==
    SummaryOf(SortedPrices(validRecords), PsfValues(validRecords),
              PricePerLeaseValues(validRecords))

SummaryOfValid(validRecords) ==
    IF Len(validRecords) = 0 THEN CountZero
    ELSE SummaryOf(SortedPrices(validRecords), PsfValues(validRecords),
                   PricePerLeaseValues(validRecords))

calculateSummaryStats(records) ==
    IF Len(records) = 0 THEN CountZero ELSE SummaryOfValid(ValidRecords(records))

\* ------------------------------------------------------------------------
\* calculateLineChartData
\* ------------------------------------------------------------------------

\* DataPoint that counts the records that have an area only.
DataPointCountingAreas(month, validRecords, prices) ==
    [month |-> month,
     transactionCount |-> Num(Len(PsfValues(validRecords))),
     grossTransactionValue |-> Num(d3sum(prices)),
     median_psf |-> d3quantile(PsfValues(validRecords), 2),
     median_price_per_lease |-> d3quantile(PricePerLeaseValues(validRecords), 2),
     millionDollarTransactionPercentage |-> Num(MillionDollarPercentage(prices))]

\* The point pushed for a month with valid records, of the given prices.
DataPoint(month, validRecords, prices) ==
    [month |-> month,
     transactionCount |-> Num(Len(validRecords)),
     grossTransactionValue |-> Num(d3sum(prices)),
     median_psf |-> d3quantile(PsfValues(validRecords), 2),
     median_price_per_lease |-> d3quantile(PricePerLeaseValues(validRecords), 2),
     millionDollarTransactionPercentage |-> Num(MillionDollarPercentage(prices))]

\* GapPoint with 0 for the count, the value and the percentage.
GapPointOfZeros(month) ==
    [month |-> month,
     transactionCount |-> Num(0),
     grossTransactionValue |-> Num(0),
     median_psf |-> undefined,
     median_price_per_lease |-> undefined,
     millionDollarTransactionPercentage |-> Num(0)]

\* The point pushed for a month without valid records.
GapPoint(month) ==
    [month |-> month,
     transactionCount |-> undefined,
     grossTransactionValue |-> undefined,
     median_psf |-> undefined,
     median_price_per_lease |-> undefined,
     millionDollarTransactionPercentage |-> undefined]

PointOfValid(month, validRecords) ==
    LET Price(n) == n.price.v
    IN  IF Len(validRecords) > 0
        THEN DataPoint(month, validRecords, Map(validRecords, Price))
        ELSE GapPoint(month)

LineChartPoint(records, month) ==
    PointOfValid(month, ValidRecords(GroupGet(records, month)))

\* ObservedMax taking the lower end of the extent: d3.extent(...)[0] ?? 0
ObservedMaxOfExtentLower(values) ==
    LET Defined(x) == x # undefined
        Val(x) == x.v
    IN  OrElse(d3min(Map(SelectSeq(values, Defined), Val)), Num(0)).v

\* d3.extent(values.filter(d => d !== undefined))[1] ?? 0
ObservedMax(values) ==
    LET Defined(x) == x # undefined
        Val(x) == x.v
    IN  OrElse(d3max(Map(SelectSeq(values, Defined), Val)), Num(0)).v

\* LineChartLoop pushing a point only for a month that has valid records.
LineChartLoopSkippingGaps(records, xDomain) ==
    LET Point(month) == LineChartPoint(records, month)
        HasData(d) == d.transactionCount # undefined
    IN  SelectSeq(Map(xDomain, Point), HasData)

\* The loop of calculateLineChartData over xDomain: the points pushed to data.
LineChartLoop(records, xDomain) ==
    LET Point(month) == LineChartPoint(records, month) IN Map(xDomain, Point)

\* The returned object of calculateLineChartData, of the points pushed.
LineChartResultOf(data) ==
    LET Count(d) == d.transactionCount
        Gross(d) == d.grossTransactionValue
        Psf(d) == d.median_psf
        PerLease(d) == d.median_price_per_lease
        Pct(d) == d.millionDollarTransactionPercentage
    IN  [lineChartData |-> data,
         transactionCountYDomain |->
             DataDomain(ObservedMax(Map(data, Count)) * 12, 10),
         grossTransactionValueYDomain |->
             DataDomain(ObservedMax(Map(data, Gross)) * 105, 100),
         medianPsfYDomain |->
             DataDomain(ObservedMax(Map(data, Psf)) * 105, 400),
         medianPricePerLeaseYDomain |->
             DataDomain(ObservedMax(Map(data, PerLease)) * 105, 400),
         millionDollarPercentageYDomain |->
             DataDomain(ObservedMax(Map(data, Pct)) * 105, 100 * PercentUnit)]

\* calculateLineChartData past its empty-input return.
LineChartResult(records, xDomain) == LineChartResultOf(LineChartLoop(records, xDomain))

\* calculateLineChartData without its empty-input return.
CalculateLineChartDataNoFallback(records, xDomain) == LineChartResult(records, xDomain)

calculateLineChartData(records, xDomain) ==
    IF Len(records) = 0
    THEN [lineChartData |-> <<>>,
          transactionCountYDomain |-> LiteralDomain(0, 100),
          grossTransactionValueYDomain |-> LiteralDomain(0, 1000000),
          medianPsfYDomain |-> LiteralDomain(0, 1000),
          medianPricePerLeaseYDomain |-> LiteralDomain(0, 1000),
          millionDollarPercentageYDomain |-> LiteralDomain(0, 5)]
    ELSE LineChartResult(records, xDomain)

\* calculateGlobalLeaseDomain with Math.floor for the upper bound too.
CalculateGlobalLeaseDomainFloorBoth(records) ==
    LET Lease(r) == parseRemainingLeaseToYears(r.remaining_lease)
        NotNull(y) == y # null
        Val(y) == y.v
        leaseYears == Map(SelectSeq(Map(records, Lease), NotNull), Val)
    IN  IF Len(records) = 0 THEN <<0, 99>>
        ELSE IF Len(leaseYears) = 0 THEN <<0, 99>>
        ELSE << d3min(leaseYears).v \div 12, d3max(leaseYears).v \div 12 >>

\* [Math.floor(d3.min(leaseYears)), Math.ceil(d3.max(leaseYears))] in whole
\* years, of the leases (in twelfths of a year) that parse; [0, 99] otherwise.
calculateGlobalLeaseDomain(records) ==
    LET Lease(r) == parseRemainingLeaseToYears(r.remaining_lease)
        NotNull(y) == y # null
        Val(y) == y.v
        leaseYears == Map(SelectSeq(Map(records, Lease), NotNull), Val)
    IN  IF Len(records) = 0 THEN <<0, 99>>
        ELSE IF Len(leaseYears) = 0 THEN <<0, 99>>
        ELSE << d3min(leaseYears).v \div 12, (d3max(leaseYears).v + 11) \div 12 >>

\* ------------------------------------------------------------------------
\* calculateStackedBarChartData
\* ------------------------------------------------------------------------

PRICE_CATEGORIES == <<"0-300k", "300-500k", "500-800k", "800k-1m", ">=1m">>

\* priceCounts as the loop over a month's records starts.
ZeroPriceCounts == [category \in {"0-300k", "300-500k", "500-800k", "800k-1m", ">=1m"} |-> 0]

\* PriceCategory with bands that include their upper bound.
PriceCategoryUpperInclusive(price) ==
    IF price <= 300000 THEN "0-300k"
    ELSE IF price <= 500000 THEN "300-500k"
    ELSE IF price <= 800000 THEN "500-800k"
    ELSE IF price <= 1000000 THEN "800k-1m"
    ELSE ">=1m"

\* The band the if / else-if chain increments for a price.
PriceCategory(price) ==
    IF price < 300000 THEN "0-300k"
    ELSE IF price < 500000 THEN "300-500k"
    ELSE IF price < 800000 THEN "500-800k"
    ELSE IF price < 1000000 THEN "800k-1m"
    ELSE ">=1m"

\* totalTransactions++ and priceCounts[band]++ for a parsed price.
CountPrice(tally, price) ==
    [priceCounts |->
        [tally.priceCounts EXCEPT ![PriceCategory(price)] = @ + 1],
     totalTransactions |-> tally.totalTransactions + 1]

\* CountParsed with totalTransactions++ ahead of the isNaN check.
CountParsedBeforeNaNCheck(tally, price) ==
    IF isNaN(price)
    THEN [tally EXCEPT !.totalTransactions = @ + 1]
    ELSE CountPrice(tally, price.v)

\* One pass of the loop over monthRecords, of the parsed price: continue
\* when it is NaN.
CountParsed(tally, price) ==
    IF isNaN(price) THEN tally ELSE CountPrice(tally, price.v)

\* The loop over monthRecords.
RECURSIVE CountRecords(_)
CountRecords(monthRecords) ==
    IF monthRecords = <<>>
    THEN [priceCounts |-> ZeroPriceCounts, totalTransactions |-> 0]
    ELSE CountParsed(CountRecords(SubSeq(monthRecords, 1, Len(monthRecords) - 1)),
                     parseFloat(monthRecords[Len(monthRecords)].resale_price))

\* { month, ...priceCounts, totalTransactions }; the five counts are held
\* under priceCounts, by category.
StackedBarPointOf(month, tally) ==
    [month |-> month,
     priceCounts |-> tally.priceCounts,
     totalTransactions |-> tally.totalTransactions]

StackedBarPoint(records, month) ==
    StackedBarPointOf(month, CountRecords(GroupGet(records, month)))

\* StackedBarLoop that pushes a point only for a month d3.group has a key for.
StackedBarLoopOverGroups(records, xDomain) ==
    LET Point(month) == StackedBarPoint(records, month)
        HasGroup(month) == GroupGet(records, month) # <<>>
    IN  Map(SelectSeq(xDomain, HasGroup), Point)

\* The loop of calculateStackedBarChartData over xDomain.
StackedBarLoop(records, xDomain) ==
    LET Point(month) == StackedBarPoint(records, month) IN Map(xDomain, Point)

calculateStackedBarChartData(records, xDomain) ==
    IF Len(records) = 0 THEN <<>> ELSE StackedBarLoop(records, xDomain)

\* ------------------------------------------------------------------------
\* StackedBarChart: the numbers of processedData
\* ------------------------------------------------------------------------

\* The percentages of processedData are quotients that are not whole
\* multiples of any unit, so they are held as the IEEE 754 doubles that
\* the / and * of the code produce.

\* A natural number of any size is held as its digits in base Limb, least
\* significant first, without a most significant zero (<<>> is 0).
Limb == 2 ^ 13

RECURSIVE BigOfNat(_)
BigOfNat(n) == IF n = 0 THEN <<>> ELSE <<n % Limb>> \o BigOfNat(n \div Limb)

\* digit + Limb * rest, without a most significant zero.
BigCons(digit, rest) == IF digit = 0 /\ rest = <<>> THEN <<>> ELSE <<digit>> \o rest

\* a * k + carry for a natural k < 2^17.
RECURSIVE BigTimes(_, _, _)
BigTimes(a, k, carry) ==
    IF a = <<>> THEN BigOfNat(carry)
    ELSE BigCons((a[1] * k + carry) % Limb,
                 BigTimes(Tail(a), k, (a[1] * k + carry) \div Limb))

\* a + b + carry.
RECURSIVE BigPlus(_, _, _)
BigPlus(a, b, carry) ==
    IF a = <<>> THEN (IF carry = 0 THEN b ELSE BigPlus(<<carry>>, b, 0))
    ELSE IF b = <<>> THEN (IF carry = 0 THEN a ELSE BigPlus(a, <<carry>>, 0))
    ELSE BigCons((a[1] + b[1] + carry) % Limb,
                 BigPlus(Tail(a), Tail(b), (a[1] + b[1] + carry) \div Limb))

\* One step of the long division by k, from the most significant digit
\* down: the more significant part of the quotient and the remainder so far.
BigDivideStep(digit, k, upper) ==
    [quotient |-> BigCons((upper.remainder * Limb + digit) \div k, upper.quotient),
     remainder |-> (upper.remainder * Limb + digit) % k]

\* The quotient and the remainder of a by a natural k with 0 < k < 2^17.
RECURSIVE BigDivide(_, _)
BigDivide(a, k) ==
    IF a = <<>> THEN [quotient |-> <<>>, remainder |-> 0]
    ELSE BigDivideStep(a[1], k, BigDivide(Tail(a), k))

\* a < b.
RECURSIVE BigLess(_, _)
BigLess(a, b) ==
    \/ Len(a) < Len(b)
    \/ /\ Len(a) = Len(b)
       /\ a # <<>>
       /\ \/ a[Len(a)] < b[Len(b)]
          \/ /\ a[Len(a)] = b[Len(b)]
             /\ BigLess(SubSeq(a, 1, Len(a) - 1), SubSeq(b, 1, Len(b) - 1))

\* 2^n.
BigPowerOfTwo(n) == [i \in 1..(n \div 13) |-> 0] \o <<2 ^ (n % 13)>>

BigIsOdd(a) == a # <<>> /\ a[1] % 2 = 1

\* A double that is zero or a positive normal number is held as its
\* significand, a natural from 2^52 up to 2^53 - 1, and the exponent of the
\* significand's unit: significand * 2^exponent.
DoubleZero == [significand |-> <<>>, exponent |-> 0]

\* A significand that rounding has carried up to 2^53 is 2^52 of the next
\* exponent.
DoubleOfRounded(significand, exponent) ==
    IF significand = BigPowerOfTwo(53)
    THEN [significand |-> BigPowerOfTwo(52), exponent |-> exponent + 1]
    ELSE [significand |-> significand, exponent |-> exponent]

\* Round to nearest, ties to even: the quotient and the remainder of a
\* number by 2^shift, to which a smaller positive fraction is still to be
\* added when inexact, become the double nearest to number * 2^exponent.
RoundHalfEven(parts, shift, inexact, exponent) ==
    IF \/ 2 * parts.remainder > 2 ^ shift
       \/ /\ 2 * parts.remainder = 2 ^ shift
          /\ (inexact \/ BigIsOdd(parts.quotient))
    THEN DoubleOfRounded(BigPlus(parts.quotient, <<>>, 1), exponent + shift)
    ELSE DoubleOfRounded(parts.quotient, exponent + shift)

\* The double nearest to (number + fraction) * 2^exponent, for a number from
\* 2^53 up to 2^66 and a fraction in [0, 1) that is not 0 when inexact.
RECURSIVE RoundToDouble(_, _, _, _)
RoundToDouble(number, shift, inexact, exponent) ==
    IF BigLess(number, BigPowerOfTwo(53 + shift))
    THEN RoundHalfEven(BigDivide(number, 2 ^ shift), shift, inexact, exponent)
    ELSE RoundToDouble(number, shift + 1, inexact, exponent)

\* The double nearest to dividend / divisor * 2^exponent, where divisor <=
\* dividend < 2 * divisor: the quotient is taken with two more digits than a
\* significand has.
DivideNormalised(parts, exponent) ==
    RoundToDouble(parts.quotient, 1, parts.remainder # 0, exponent - 54)

\* The dividend or the divisor is doubled until the quotient is in [1, 2).
RECURSIVE DivideScaled(_, _, _)
DivideScaled(dividend, divisor, exponent) ==
    IF dividend < divisor THEN DivideScaled(2 * dividend, divisor, exponent - 1)
    ELSE IF dividend >= 2 * divisor THEN DivideScaled(dividend, 2 * divisor, exponent + 1)
    ELSE DivideNormalised(BigDivide(BigTimes(BigPowerOfTwo(54), dividend, 0), divisor),
                          exponent)

\* a / b of two numbers that hold a small natural and a small positive
\* natural.
DoubleDivide(a, b) == IF a = 0 THEN DoubleZero ELSE DivideScaled(a, b, 0)

\* x * k of a double and a number that holds a small natural.
DoubleTimes(x, k) ==
    IF x = DoubleZero \/ k = 0 THEN DoubleZero
    ELSE IF k = 1 THEN x
    ELSE RoundToDouble(BigTimes(x.significand, k, 0), 1, FALSE, x.exponent)

\* A double that is 0 or at least 1, as a natural number of units of 2^-52.
FixedPoint(x) ==
    IF x = DoubleZero THEN <<>> ELSE BigTimes(x.significand, 2 ^ (x.exponent + 52), 0)

\* a + b of two doubles that are 0 or at least 1.
DoublePlus(a, b) ==
    IF a = DoubleZero THEN b
    ELSE IF b = DoubleZero THEN a
    ELSE RoundToDouble(BigPlus(FixedPoint(a), FixedPoint(b), 0), 0, FALSE, -52)

\* ------------------------------------------------------------------------
\* StackedBarChart: processedData
\* ------------------------------------------------------------------------

\* BandPercentage without the test of totalTransactions: 0 / 0 * 100 is NaN.
BandPercentageUnguarded(count, totalTransactions) ==
    IF totalTransactions > 0
    THEN DoubleTimes(DoubleDivide(count, totalTransactions), 100)
    ELSE NaN

\* d.totalTransactions > 0 ? (d[category] / d.totalTransactions) * 100 : 0
BandPercentage(count, totalTransactions) ==
    IF totalTransactions > 0
    THEN DoubleTimes(DoubleDivide(count, totalTransactions), 100)
    ELSE DoubleZero

\* The item built for a point in percentage mode: the month and, for each
\* category (held under priceCounts as in the point), its percentage.
PercentageItem(d) ==
    [month |-> d.month,
     priceCounts |->
        [category \in { PRICE_CATEGORIES[k] : k \in 1..Len(PRICE_CATEGORIES) } |->
            BandPercentage(d.priceCounts[category], d.totalTransactions)]]

\* The memo processedData of [data, mode].
UseMemoProcessedData(data, mode) ==
    IF mode = "percentage" THEN Map(data, PercentageItem) ELSE data

\* d3.stack().keys(PRICE_CATEGORIES) on an item of percentage mode: the
\* upper end of the k-th series, each series laid on the one before.
RECURSIVE StackUpTo(_, _)
StackUpTo(item, k) ==
    IF k = 0 THEN DoubleZero
    ELSE DoublePlus(StackUpTo(item, k - 1), item.priceCounts[PRICE_CATEGORIES[k]])

\* ------------------------------------------------------------------------
\* useHdbData: pure parts
\* ------------------------------------------------------------------------

RECURSIVE InsertMonth(_, _)
InsertMonth(sorted, x) ==
    IF sorted = <<>> THEN <<x>>
    ELSE IF CompareDates(sorted[Len(sorted)], x) <= 0 THEN Append(sorted, x)
    ELSE Append(InsertMonth(SubSeq(sorted, 1, Len(sorted) - 1), x), sorted[Len(sorted)])

\* [...new Set(data.map(r => r.month))].sort(by date)
RECURSIVE SortMonths(_)
SortMonths(months) ==
    IF months = <<>> THEN <<>>
    ELSE InsertMonth(SortMonths(SubSeq(months, 1, Len(months) - 1)), months[Len(months)])

AllMonths(data) == SortMonths(GroupKeys(data))

\* array.includes(x)
Includes(array, x) == \E i \in 1..Len(array) : array[i] = x

\* array.indexOf(x), counted from 0; -1 when absent.
IndexOf(array, x) ==
    IF Includes(array, x)
    THEN (CHOOSE i \in 1..Len(array) :
              array[i] = x /\ \A j \in 1..(i - 1) : array[j] # x) - 1
    ELSE -1

\* a >= b and a <= b on two Dates: false when either is invalid.
TimeGeq(ta, tb) == ~isNaN(ta) /\ ~isNaN(tb) /\ ta.v >= tb.v

DateGeq(a, b) == TimeGeq(DateGetTime(a), DateGetTime(b))

DateLeq(a, b) == DateGeq(b, a)

\* The useMemo of filteredRecords.
\* The filter taking a record without a parsed lease as a match of the
\* lease range.
FilteredRecordsKeepingUnparsed(raw, towns, flatTypes, dateRange, leaseRange) ==
    IF Len(raw) = 0 \/ ~Truthy(dateRange[1]) \/ ~Truthy(dateRange[2]) THEN <<>>
    ELSE LET Keep(r) ==
                 LET isInDateRange == DateGeq(r.month, dateRange[1])
                                        /\ DateLeq(r.month, dateRange[2])
                     isTownMatch == Len(towns) = 0 \/ Includes(towns, r.town)
                     isFlatTypeMatch == Len(flatTypes) = 0 \/ Includes(flatTypes, r.flat_type)
                     leaseYears == parseRemainingLeaseToYears(r.remaining_lease)
                     isLeaseMatch == \/ leaseYears = null
                                     \/ /\ leaseYears.v >= 12 * leaseRange[1]
                                        /\ leaseYears.v <= 12 * leaseRange[2]
                 IN  isInDateRange /\ isTownMatch /\ isFlatTypeMatch /\ isLeaseMatch
         IN  SelectSeq(raw, Keep)

FilteredRecords(raw, towns, flatTypes, dateRange, leaseRange) ==
    IF Len(raw) = 0 \/ ~Truthy(dateRange[1]) \/ ~Truthy(dateRange[2]) THEN <<>>
    ELSE LET Keep(r) ==
                 LET isInDateRange == DateGeq(r.month, dateRange[1])
                                        /\ DateLeq(r.month, dateRange[2])
                     isTownMatch == Len(towns) = 0 \/ Includes(towns, r.town)
                     isFlatTypeMatch == Len(flatTypes) = 0 \/ Includes(flatTypes, r.flat_type)
                     leaseYears == parseRemainingLeaseToYears(r.remaining_lease)
                     isLeaseMatch == /\ leaseYears # null
                                     /\ leaseYears.v >= 12 * leaseRange[1]
                                     /\ leaseYears.v <= 12 * leaseRange[2]
                 IN  isInDateRange /\ isTownMatch /\ isFlatTypeMatch /\ isLeaseMatch
         IN  SelectSeq(raw, Keep)

\* The useMemo of chartXDomain.
ChartXDomain(allMonths, dateRange) ==
    LET startIndex == IndexOf(allMonths, dateRange[1])
        endIndex == IndexOf(allMonths, dateRange[2])
    IN  IF ~Truthy(dateRange[1]) \/ ~Truthy(dateRange[2]) \/ Len(allMonths) = 0 THEN <<>>
        ELSE IF startIndex = -1 \/ endIndex = -1 THEN <<>>
        ELSE SubSeq(allMonths, startIndex + 1, endIndex + 1)

\* The function of the useMemo of allMonthsXDomain, yDomain, allLeaseYearsDomain.
StableDomains(raw, metric) ==
    IF Len(raw) = 0
    THEN [allMonthsXDomain |-> <<>>,
          yDomain |-> LiteralDomain(0, 1000000),
          allLeaseYearsDomain |-> <<0, 99>>]
    ELSE [allMonthsXDomain |-> AllMonths(raw),
          yDomain |-> calculateGlobalYDomain(raw, metric),
          allLeaseYearsDomain |-> calculateGlobalLeaseDomain(raw)]

\* The largest totalTransactions of the points, or undefined.
MaxTotalTransactions(data) ==
    LET Total(d) == d.totalTransactions IN d3max(Map(data, Total))

\* The useMemo of stackedBarChartYDomain: [0, maxTotal * 1.1].
StackedBarChartYDomain(stackedBarChartData) ==
    IF Len(stackedBarChartData) = 0 THEN LiteralDomain(0, 100)
    ELSE DataDomain(OrElse(MaxTotalTransactions(stackedBarChartData), Num(0)).v * 11, 10)

\* The memos computed from filteredRecords and chartXDomain.
AggregatesOf(filteredRecords, chartXDomain, metric) ==
    [filteredRecords |-> filteredRecords,
     chartXDomain |-> chartXDomain,
     processedData |-> calculateBoxPlotData(filteredRecords, chartXDomain, metric),
     summaryStats |-> calculateSummaryStats(filteredRecords),
     lineChart |-> calculateLineChartData(filteredRecords, chartXDomain),
     stackedBarChartData |-> calculateStackedBarChartData(filteredRecords, chartXDomain),
     stackedBarChartYDomain |->
         StackedBarChartYDomain(calculateStackedBarChartData(filteredRecords, chartXDomain))]

\* What a render of useHdbData computes from the state it sees.
Aggregates(scope, domains) ==
    AggregatesOf(FilteredRecords(scope.rawRecords, scope.selectedTowns,
                                 scope.selectedFlatTypes, scope.selectedDateRange,
                                 scope.selectedLeaseRange),
                 ChartXDomain(domains.allMonthsXDomain, scope.selectedDateRange),
                 scope.boxPlotMetric)

\* ------------------------------------------------------------------------
\* The aggregators' effect on their arguments
\*
\* Every Array.prototype method of an aggregator that changes the array it
\* is invoked on (sort, push), with the source line and the array: an
\* argument by its name, or "fresh" for an array the call created itself
\* ([], the result of map or filter, a group of d3.group). Elements are
\* never assigned to, and no field of a record is.
\* ------------------------------------------------------------------------

InPlace(line, method, receiver) ==
    [line |-> line, method |-> method, receiver |-> receiver]

\* The operations of processRecordGroup: sortedValues is map(...).sort(...).
InPlaceOfRecordGroup == { InPlace(62, "sort", "fresh") }

\* calculateBoxPlotData ordering its input, records.sort(...), before it
\* groups it.
InPlaceOperationsSortingRecords(aggregator) ==
    IF aggregator = "calculateBoxPlotData"
    THEN InPlaceOfRecordGroup \cup {InPlace(90, "sort", "records"),
                                    InPlace(96, "push", "fresh")}
    ELSE InPlaceOfRecordGroup

InPlaceOperations(aggregator) ==
    CASE aggregator = "calculateBoxPlotData" ->
             InPlaceOfRecordGroup
                 \cup {InPlace(96, "push", "fresh"), InPlace(99, "sort", "fresh")}
      [] aggregator = "calculateGlobalYDomain" -> InPlaceOfRecordGroup
      [] aggregator = "calculateGlobalLeaseDomain" -> {}
      [] aggregator = "calculateSummaryStats" ->
             {InPlace(142, "sort", "fresh"), InPlace(145, "sort", "fresh"),
              InPlace(148, "sort", "fresh")}
      [] aggregator = "calculateLineChartData" ->
             {InPlace(196, "sort", "fresh"), InPlace(199, "sort", "fresh"),
              InPlace(204, "push", "fresh"), InPlace(213, "push", "fresh")}
      [] aggregator = "calculateStackedBarChartData" ->
             {InPlace(295, "push", "fresh")}

\* An argument array after the call: sorted by month when a sort was
\* invoked on it, one element longer when a push was, else as it was.
ArrayAfter(array, name, operations) ==
    IF \E op \in operations : op.receiver = name /\ op.method = "sort"
    THEN IF name = "records" THEN SortByMonth(array) ELSE SortMonths(array)
    ELSE IF \E op \in operations : op.receiver = name /\ op.method = "push"
    THEN Append(array, array[1])
    ELSE array

\* ------------------------------------------------------------------------
\* State
\* ------------------------------------------------------------------------

VARIABLES
    \* an aggregator applied to a record collection
    records,     \* the record collection the aggregator is applied to
    call,        \* the aggregator applied, "none" before the call
    args,        \* the other arguments of the call: xDomain, metric
    result,      \* what the call returned
    passed,      \* the arrays passed to the call, as they were before it
    \* useHdbData
    phase,       \* where loadData is: "mount", "fetching", "settled"
    rawRecords,
    loading,
    error,
    loadingMessage,
    selectedFlatTypes,
    selectedTowns,
    selectedDateRange,
    selectedLeaseRange,
    boxPlotMetric,
    lineChartMetric,
    stackedBarChartMode,
    stableDomains, \* the memo { allMonthsXDomain, yDomain, allLeaseYearsDomain }
    \* StackedBarChart
    chartData,     \* the prop data, <<>> before the first render
    chartMode,     \* the prop mode, "none" before the first render
    processedData, \* the memo processedData
    \* parseRemainingLeaseToYears applied to a text
    leaseStr,      \* the argument
    leaseParsed,   \* whether the function has returned
    leaseYears,    \* what it returned, in twelfths of a year
    \* DateRangeSelector
    dateAllMonths,     \* the prop allMonths
    dateSelectedRange, \* the prop selectedRange
    dateOpenPicker,    \* the state openPicker: "start", "end" or "null"
    dateOnChange,      \* <<the range last passed to onChange>>, <<>> before
    timezoneOffset,    \* hours the browser's local time is ahead of UTC
    \* LeaseRangeSelector
    leaseMin,           \* the prop min
    leaseMax,           \* the prop max
    leaseSelectedRange, \* the prop selectedRange
    leaseOpenPicker,    \* the state openPicker: "start", "end" or "null"
    leaseOnChange,      \* <<the last call of onChange>>, <<>> before any
    \* the getHdbData handler
    handlerPhase,       \* "start", "lookup", "loop" or "done"
    latestMonthString,  \* undefined until the lookup has given it
    loopIndex,          \* the i of the loop over the months
    pendingRequests,    \* the fetch calls that have not settled
    monthRequests,      \* the months requested so far, in order
    monthSucceeded,     \* for each request settled, whether it gave records
    allFetchedRecords,
    responses           \* the responses sent through res, in order

aggregatorVars == <<records, call, args, result, passed>>

hookVars ==
    <<phase, rawRecords, loading, error, loadingMessage, selectedFlatTypes,
      selectedTowns, selectedDateRange, selectedLeaseRange, boxPlotMetric,
      lineChartMetric, stackedBarChartMode, stableDomains>>

chartVars == <<chartData, chartMode, processedData>>

parserVars == <<leaseStr, leaseParsed, leaseYears>>

\* The variables of the parts that are neither an aggregator call, nor the
\* hook, nor the stacked bar chart.
dateSelectorVars ==
    <<dateAllMonths, dateSelectedRange, dateOpenPicker, dateOnChange, timezoneOffset>>

leaseSelectorVars ==
    <<leaseMin, leaseMax, leaseSelectedRange, leaseOpenPicker, leaseOnChange>>

handlerVars ==
    <<handlerPhase, latestMonthString, loopIndex, pendingRequests, monthRequests,
      monthSucceeded, allFetchedRecords, responses>>

componentVars == <<parserVars, dateSelectorVars, leaseSelectorVars, handlerVars>>

vars == <<aggregatorVars, hookVars, chartVars, componentVars>>

\* error: string | null
NoError == [isNull |-> TRUE, message |-> ""]

ErrorMessage(message) == [isNull |-> FALSE, message |-> message]

\* The useState initial values and the first render's memo.
HookInit ==
    /\ phase = "mount"
    /\ rawRecords = <<>>
    /\ loading = TRUE
    /\ error = NoError
    /\ loadingMessage = "Initializing..."
    /\ selectedFlatTypes = <<>>
    /\ selectedTowns = <<>>
    /\ selectedDateRange = << <<>>, <<>> >>
    /\ selectedLeaseRange = <<0, 99>>
    /\ boxPlotMetric = "resale_price"
    /\ lineChartMetric = "grossTransactionValue"
    /\ stackedBarChartMode = "percentage"
    /\ stableDomains = StableDomains(<<>>, "resale_price")

NoArgs == [xDomain |-> <<>>, metric |-> "resale_price"]

\* The arrays an aggregator is called with.
Passed(recordArray, xDomain) == [records |-> recordArray, xDomain |-> xDomain]

\* No StackedBarChart has rendered.
NoChart ==
    /\ chartData = <<>>
    /\ chartMode = "none"
    /\ processedData = <<>>

\* parseRemainingLeaseToYears has not been applied.
NoParse ==
    /\ leaseStr = UndefinedText
    /\ leaseParsed = FALSE
    /\ leaseYears = null

\* No DateRangeSelector has rendered.
NoDateRangeSelector ==
    /\ dateAllMonths = <<>>
    /\ dateSelectedRange = << <<>>, <<>> >>
    /\ dateOpenPicker = "null"
    /\ dateOnChange = <<>>
    /\ timezoneOffset = 0

\* No LeaseRangeSelector has rendered.
NoLeaseRangeSelector ==
    /\ leaseMin = 0
    /\ leaseMax = 99
    /\ leaseSelectedRange = <<0, 99>>
    /\ leaseOpenPicker = "null"
    /\ leaseOnChange = <<>>

\* The value of loopIndex before the loop.
BeforeLoop == 0 - 1

\* The handler has not been invoked.
NoRequest ==
    /\ handlerPhase = "start"
    /\ latestMonthString = UndefinedText
    /\ loopIndex = BeforeLoop
    /\ pendingRequests = {}
    /\ monthRequests = <<>>
    /\ monthSucceeded = <<>>
    /\ allFetchedRecords = <<>>
    /\ responses = <<>>

NoComponents ==
    NoParse /\ NoDateRangeSelector /\ NoLeaseRangeSelector /\ NoRequest

NoCall ==
    /\ records = <<>>
    /\ call = "none"
    /\ args = NoArgs
    /\ result = null
    /\ passed = Passed(<<>>, <<>>)

\* ------------------------------------------------------------------------
\* Spec: an aggregator applied once to a record collection
\* ------------------------------------------------------------------------

Init ==
    /\ records \in RecordCollections
    /\ call = "none"
    /\ args = NoArgs
    /\ result = null
    /\ passed = Passed(<<>>, <<>>)
    /\ HookInit
    /\ NoChart
    /\ NoComponents

CallCalculateBoxPlotData ==
    /\ call = "none"
    /\ \E xDomain \in PeriodDomains, metric \in BoxPlotMetrics :
          /\ call' = "calculateBoxPlotData"
          /\ passed' = Passed(records, xDomain)
          /\ args' = [xDomain |-> ArrayAfter(xDomain, "xDomain", InPlaceOperations("calculateBoxPlotData")),
                       metric |-> metric]
          /\ result' = calculateBoxPlotData(records, xDomain, metric)
    /\ records' = ArrayAfter(records, "records", InPlaceOperations("calculateBoxPlotData"))
    /\ UNCHANGED <<hookVars, chartVars, componentVars>>

CallCalculateGlobalYDomain ==
    /\ call = "none"
    /\ \E metric \in BoxPlotMetrics :
          /\ call' = "calculateGlobalYDomain"
          /\ passed' = Passed(records, <<>>)
          /\ args' = [xDomain |-> <<>>,
                       metric |-> metric]
          /\ result' = calculateGlobalYDomain(records, metric)
    /\ records' = ArrayAfter(records, "records", InPlaceOperations("calculateGlobalYDomain"))
    /\ UNCHANGED <<hookVars, chartVars, componentVars>>

CallCalculateLineChartData ==
    /\ call = "none"
    /\ \E xDomain \in PeriodDomains :
          /\ call' = "calculateLineChartData"
          /\ passed' = Passed(records, xDomain)
          /\ args' = [xDomain |-> ArrayAfter(xDomain, "xDomain", InPlaceOperations("calculateLineChartData")),
                       metric |-> "resale_price"]
          /\ result' = calculateLineChartData(records, xDomain)
    /\ records' = ArrayAfter(records, "records", InPlaceOperations("calculateLineChartData"))
    /\ UNCHANGED <<hookVars, chartVars, componentVars>>

CallCalculateGlobalLeaseDomain ==
    /\ call = "none"
    /\ call' = "calculateGlobalLeaseDomain"
    /\ passed' = Passed(records, <<>>)
    /\ args' = [xDomain |-> <<>>,
                 metric |-> "resale_price"]
    /\ result' = calculateGlobalLeaseDomain(records)
    /\ records' = ArrayAfter(records, "records", InPlaceOperations("calculateGlobalLeaseDomain"))
    /\ UNCHANGED <<hookVars, chartVars, componentVars>>

CallCalculateStackedBarChartData ==
    /\ call = "none"
    /\ \E xDomain \in PeriodDomains :
          /\ call' = "calculateStackedBarChartData"
          /\ passed' = Passed(records, xDomain)
          /\ args' = [xDomain |-> ArrayAfter(xDomain, "xDomain", InPlaceOperations("calculateStackedBarChartData")),
                       metric |-> "resale_price"]
          /\ result' = calculateStackedBarChartData(records, xDomain)
    /\ records' = ArrayAfter(records, "records", InPlaceOperations("calculateStackedBarChartData"))
    /\ UNCHANGED <<hookVars, chartVars, componentVars>>

CallCalculateSummaryStats ==
    /\ call = "none"
    /\ call' = "calculateSummaryStats"
    /\ passed' = Passed(records, <<>>)
    /\ args' = [xDomain |-> <<>>,
                 metric |-> "resale_price"]
    /\ result' = calculateSummaryStats(records)
    /\ records' = ArrayAfter(records, "records", InPlaceOperations("calculateSummaryStats"))
    /\ UNCHANGED <<hookVars, chartVars, componentVars>>

Next ==
    \/ CallCalculateBoxPlotData
    \/ CallCalculateGlobalYDomain
    \/ CallCalculateLineChartData
    \/ CallCalculateGlobalLeaseDomain
    \/ CallCalculateStackedBarChartData
    \/ CallCalculateSummaryStats

Spec == Init /\ [][Next]_vars

\* ------------------------------------------------------------------------
\* HookSpec: useHdbData from its first render on
\* ------------------------------------------------------------------------

LineChartMetrics ==
    {"grossTransactionValue", "median_psf", "median_price_per_lease",
     "millionDollarTransactionPercentage"}

StackedBarChartModes == {"percentage", "count"}

\* What response.json() of /api/getHdbData can resolve to: no record, or two
\* months of which the first has low outliers and a record whose lease does
\* not parse, or records that all lack the lease.
FetchResponses ==
    { <<>>,
      Repeat(HighRecord, 6) \o <<DefectRecord("noLease")>> \o Repeat(LowRecord, 2)
          \o Repeat(OtherRecord, 5),
      Repeat(DefectRecord("noLease"), 2) }

\* What fetchAllHdbData can reject with: the Error it throws itself, with
\* the server's message or the status line, or the Error fetch rejects with.
FetchRejections ==
    { [isError |-> TRUE, message |-> "An unknown error occurred while fetching data."],
      [isError |-> TRUE, message |-> "Failed to fetch"] }

\* The selections the multi-select dropdowns hand to the setters.
TownSelections == { <<>>, <<"BEDOK">> }

FlatTypeSelections == { <<>>, <<"3 ROOM">> }

DateRangeSelections == { <<a, b>> : a \in Months, b \in Months }

\* Lease years offered to setSelectedLeaseRange.
LeaseYearChoices == {75, 99}

LeaseRangeSelections == { <<a, b>> : a \in LeaseYearChoices, b \in LeaseYearChoices }

\* The state a render's closures see.
Scope ==
    [rawRecords |-> rawRecords,
     selectedTowns |-> selectedTowns,
     selectedFlatTypes |-> selectedFlatTypes,
     selectedDateRange |-> selectedDateRange,
     selectedLeaseRange |-> selectedLeaseRange,
     boxPlotMetric |-> boxPlotMetric]

\* The stable domains taken from the filtered records on every render.
UseMemoStableDomainsOfFiltered(previous, old, new) ==
    StableDomains(FilteredRecords(new.rawRecords, new.selectedTowns,
                                  new.selectedFlatTypes, new.selectedDateRange,
                                  new.selectedLeaseRange),
                  new.boxPlotMetric)

\* The stable domains memoised on rawRecords alone.
UseMemoStableDomainsOfRecordsOnly(previous, old, new) ==
    IF new.rawRecords = old.rawRecords
    THEN previous
    ELSE StableDomains(new.rawRecords, new.boxPlotMetric)

\* useMemo(..., [rawRecords, boxPlotMetric]): the previous value unless a
\* dependency changed between the last render (old) and this one (new).
UseMemoStableDomains(previous, old, new) ==
    IF new.rawRecords = old.rawRecords /\ new.boxPlotMetric = old.boxPlotMetric
    THEN previous
    ELSE StableDomains(new.rawRecords, new.boxPlotMetric)

\* The render that follows a batch of state updates.
Render == stableDomains' = UseMemoStableDomains(stableDomains, Scope, Scope')

HookSpecInit == NoCall /\ HookInit /\ NoChart /\ NoComponents

\* The mount effect: loadData runs up to its await.
LoadDataStart ==
    /\ phase = "mount"
    /\ phase' = "fetching"
    /\ loadingMessage' = "Fetching latest data from server..."
    /\ UNCHANGED <<rawRecords, loading, error, selectedFlatTypes, selectedTowns,
                   selectedDateRange, selectedLeaseRange, boxPlotMetric,
                   lineChartMetric, stackedBarChartMode>>
    /\ UNCHANGED <<aggregatorVars, chartVars, componentVars>>
    /\ Render

\* loadData after fetchAllHdbData resolved; its updates are one batch.
LoadDataResolved ==
    /\ phase = "fetching"
    /\ \E data \in FetchResponses :
          LET allMonths == AllMonths(data)
              endDate == allMonths[Len(allMonths)]
              startIndex == IF Len(allMonths) - 12 > 0 THEN Len(allMonths) - 12 ELSE 0
              startDate == allMonths[startIndex + 1]
          IN  /\ rawRecords' = data
              /\ selectedDateRange' =
                    IF Len(allMonths) > 0 THEN <<startDate, endDate>>
                    ELSE selectedDateRange
              /\ selectedLeaseRange' = calculateGlobalLeaseDomain(data)
    /\ loading' = FALSE
    /\ loadingMessage' = ""
    /\ phase' = "settled"
    /\ UNCHANGED <<error, selectedFlatTypes, selectedTowns, boxPlotMetric,
                   lineChartMetric, stackedBarChartMode>>
    /\ UNCHANGED <<aggregatorVars, chartVars, componentVars>>
    /\ Render

\* loadData after fetchAllHdbData rejected, without its finally block.
LoadDataRejectedWithoutFinally ==
    /\ phase = "fetching"
    /\ \E e \in FetchRejections :
          error' = ErrorMessage(IF e.isError THEN e.message
                                ELSE "An unknown error occurred.")
    /\ phase' = "settled"
    /\ UNCHANGED <<rawRecords, loading, loadingMessage, selectedFlatTypes,
                   selectedTowns, selectedDateRange, selectedLeaseRange,
                   boxPlotMetric, lineChartMetric, stackedBarChartMode>>
    /\ UNCHANGED <<aggregatorVars, chartVars, componentVars>>
    /\ Render

\* loadData after fetchAllHdbData rejected.
LoadDataRejected ==
    /\ phase = "fetching"
    /\ \E e \in FetchRejections :
          error' = ErrorMessage(IF e.isError THEN e.message
                                ELSE "An unknown error occurred.")
    /\ loading' = FALSE
    /\ loadingMessage' = ""
    /\ phase' = "settled"
    /\ UNCHANGED <<rawRecords, selectedFlatTypes, selectedTowns, selectedDateRange,
                   selectedLeaseRange, boxPlotMetric, lineChartMetric,
                   stackedBarChartMode>>
    /\ UNCHANGED <<aggregatorVars, chartVars, componentVars>>
    /\ Render

SetSelectedFlatTypes ==
    /\ phase # "mount"
    /\ \E types \in FlatTypeSelections : selectedFlatTypes' = types
    /\ UNCHANGED <<phase, rawRecords, loading, error, loadingMessage, selectedTowns,
                   selectedDateRange, selectedLeaseRange, boxPlotMetric,
                   lineChartMetric, stackedBarChartMode>>
    /\ UNCHANGED <<aggregatorVars, chartVars, componentVars>>
    /\ Render

SetSelectedTowns ==
    /\ phase # "mount"
    /\ \E towns \in TownSelections : selectedTowns' = towns
    /\ UNCHANGED <<phase, rawRecords, loading, error, loadingMessage,
                   selectedFlatTypes, selectedDateRange, selectedLeaseRange,
                   boxPlotMetric, lineChartMetric, stackedBarChartMode>>
    /\ UNCHANGED <<aggregatorVars, chartVars, componentVars>>
    /\ Render

SetSelectedDateRange ==
    /\ phase # "mount"
    /\ \E range \in DateRangeSelections : selectedDateRange' = range
    /\ UNCHANGED <<phase, rawRecords, loading, error, loadingMessage,
                   selectedFlatTypes, selectedTowns, selectedLeaseRange,
                   boxPlotMetric, lineChartMetric, stackedBarChartMode>>
    /\ UNCHANGED <<aggregatorVars, chartVars, componentVars>>
    /\ Render

SetSelectedLeaseRange ==
    /\ phase # "mount"
    /\ \E range \in LeaseRangeSelections : selectedLeaseRange' = range
    /\ UNCHANGED <<phase, rawRecords, loading, error, loadingMessage,
                   selectedFlatTypes, selectedTowns, selectedDateRange,
                   boxPlotMetric, lineChartMetric, stackedBarChartMode>>
    /\ UNCHANGED <<aggregatorVars, chartVars, componentVars>>
    /\ Render

SetBoxPlotMetric ==
    /\ phase # "mount"
    /\ \E metric \in BoxPlotMetrics : boxPlotMetric' = metric
    /\ UNCHANGED <<phase, rawRecords, loading, error, loadingMessage,
                   selectedFlatTypes, selectedTowns, selectedDateRange,
                   selectedLeaseRange, lineChartMetric, stackedBarChartMode>>
    /\ UNCHANGED <<aggregatorVars, chartVars, componentVars>>
    /\ Render

SetLineChartMetric ==
    /\ phase # "mount"
    /\ \E metric \in LineChartMetrics : lineChartMetric' = metric
    /\ UNCHANGED <<phase, rawRecords, loading, error, loadingMessage,
                   selectedFlatTypes, selectedTowns, selectedDateRange,
                   selectedLeaseRange, boxPlotMetric, stackedBarChartMode>>
    /\ UNCHANGED <<aggregatorVars, chartVars, componentVars>>
    /\ Render

SetStackedBarChartMode ==
    /\ phase # "mount"
    /\ \E mode \in StackedBarChartModes : stackedBarChartMode' = mode
    /\ UNCHANGED <<phase, rawRecords, loading, error, loadingMessage,
                   selectedFlatTypes, selectedTowns, selectedDateRange,
                   selectedLeaseRange, boxPlotMetric, lineChartMetric>>
    /\ UNCHANGED <<aggregatorVars, chartVars, componentVars>>
    /\ Render

ResetFilters ==
    LET allMonthsXDomain == stableDomains.allMonthsXDomain
        allLeaseYearsDomain == stableDomains.allLeaseYearsDomain
    IN  /\ phase # "mount"
        /\ selectedFlatTypes' = <<>>
        /\ selectedTowns' = <<>>
        /\ selectedDateRange' =
              IF Len(allMonthsXDomain) > 0
              THEN <<allMonthsXDomain[1], allMonthsXDomain[Len(allMonthsXDomain)]>>
              ELSE selectedDateRange
        /\ selectedLeaseRange' =
              IF allLeaseYearsDomain[1] # 0 \/ allLeaseYearsDomain[2] # 99
              THEN allLeaseYearsDomain
              ELSE selectedLeaseRange
        /\ boxPlotMetric' = "resale_price"
        /\ lineChartMetric' = "grossTransactionValue"
        /\ stackedBarChartMode' = "percentage"
        /\ UNCHANGED <<phase, rawRecords, loading, error, loadingMessage>>
        /\ UNCHANGED <<aggregatorVars, chartVars, componentVars>>
        /\ Render

HookNext ==
    \/ LoadDataStart
    \/ LoadDataResolved
    \/ LoadDataRejected
    \/ SetSelectedFlatTypes
    \/ SetSelectedTowns
    \/ SetSelectedDateRange
    \/ SetSelectedLeaseRange
    \/ SetBoxPlotMetric
    \/ SetLineChartMetric
    \/ SetStackedBarChartMode
    \/ ResetFilters

HookSpec == HookSpecInit /\ [][HookNext]_vars

\* HookSpec where the mount effect runs and the fetch settles.
HookLiveSpec ==
    /\ HookSpecInit
    /\ [][HookNext]_vars
    /\ WF_vars(LoadDataStart)
    /\ WF_vars(LoadDataResolved \/ LoadDataRejected)

\* ------------------------------------------------------------------------
\* Claims about the aggregators (specification Spec)
\* ------------------------------------------------------------------------

LineChartCalled == call = "calculateLineChartData"

BoxPlotCalled == call = "calculateBoxPlotData"

GlobalYDomainCalled == call = "calculateGlobalYDomain"

\* The call returned one point per period of xDomain, the i-th point carrying
\* the i-th period.
OnePointPerPeriod ==
    /\ Len(result.lineChartData) = Len(args.xDomain)
    /\ \A i \in 1..Len(args.xDomain) : result.lineChartData[i].month = args.xDomain[i]

\* C1 as stated: for every record collection and every periodDomain,
\* calculateLineChartData returns exactly len(periodDomain) points, the i-th
\* carrying the i-th period.
C1_OnePointPerPeriodAlways == LineChartCalled => OnePointPerPeriod

\* C1 amended: for every NON-EMPTY record collection and every periodDomain,
\* calculateLineChartData returns exactly len(periodDomain) points, the i-th
\* carrying the i-th period, however many records each period has.
C1_OnePointPerPeriodWhenRecords ==
    (LineChartCalled /\ Len(records) > 0) => OnePointPerPeriod

\* A call on records of one month only, over both months: one period with
\* records, one with none.
C1_Witness ==
    /\ LineChartCalled
    /\ Len(args.xDomain) = 2
    /\ \E m \in Months : GroupGet(records, m) = <<>>
    /\ \E m \in Months : GroupGet(records, m) # <<>>
    /\ Len(result.lineChartData) = 2

IsLiteralDomain(domain, lo, hi) ==
    domain.literal /\ domain.lo = lo /\ domain.hi = hi /\ domain.per = 1

\* C2: on an empty record collection calculateLineChartData returns no
\* points and the fallback domains [0,100], [0,1000000], [0,1000], [0,1000]
\* and [0,5], whatever periodDomain is.
C2_EmptyInputFallback ==
    (LineChartCalled /\ Len(records) = 0) =>
        /\ result.lineChartData = <<>>
        /\ IsLiteralDomain(result.transactionCountYDomain, 0, 100)
        /\ IsLiteralDomain(result.grossTransactionValueYDomain, 0, 1000000)
        /\ IsLiteralDomain(result.medianPsfYDomain, 0, 1000)
        /\ IsLiteralDomain(result.medianPricePerLeaseYDomain, 0, 1000)
        /\ IsLiteralDomain(result.millionDollarPercentageYDomain, 0, 5)

C2_Witness ==
    /\ LineChartCalled
    /\ Len(records) = 0
    /\ Len(args.xDomain) = 2
    /\ result.lineChartData = <<>>

\* The valid derived records of a period for the metric of the call.
ValidOfPeriod(month) == ProcessedRecords(GroupGet(records, month), args.metric)

\* C3: every box-plot entry satisfies min <= q1 <= median <= q3 <= max.
C3_BoxPlotOrdered ==
    BoxPlotCalled =>
        \A i \in 1..Len(result) :
            /\ result[i].min <= result[i].q1
            /\ result[i].q1 <= result[i].median
            /\ result[i].median <= result[i].q3
            /\ result[i].q3 <= result[i].max

\* v < q1 - 1.5 * (q3 - q1) or v > q3 + 1.5 * (q3 - q1), for v in the
\* metric's unit and the quartiles of an entry (held times four).
BeyondFences(v, e) ==
    \/ 8 * v < 2 * e.q1 - 3 * (e.q3 - e.q1)
    \/ 8 * v > 2 * e.q3 + 3 * (e.q3 - e.q1)

\* C4: in every entry the outliers are exactly the valid derived values of
\* the period beyond the fences; every valid derived value is an outlier or
\* in the whisker population, never both, so the two counts add up to the
\* number of valid derived records.
C4_OutliersExactlyBeyondFences ==
    BoxPlotCalled =>
        \A i \in 1..Len(result) :
            LET e == result[i]
                valid == ValidOfPeriod(e.month)
                Beyond(p) == BeyondFences(p.value.v, e)
                Within(p) == ~BeyondFences(p.value.v, e)
                Value(p) == p.value.v
                whiskers == NonOutlierValues(valid, LowerFence(e.q1, e.q3),
                                             UpperFence(e.q1, e.q3))
            IN  /\ e.outliers = Map(SelectSeq(valid, Beyond), Outlier)
                /\ whiskers = Map(SelectSeq(valid, Within), Value)
                /\ Len(e.outliers) + Len(whiskers) = Len(valid)

\* An entry with an outlier, a value inside the fences and a value on a fence.
C4_Witness ==
    /\ BoxPlotCalled
    /\ \E i \in 1..Len(result) :
          /\ Len(result[i].outliers) > 0
          /\ Len(result[i].outliers) < Len(ValidOfPeriod(result[i].month))
          /\ LET valid == ValidOfPeriod(result[i].month)
             IN  \E j \in 1..Len(valid) :
                    8 * valid[j].value.v = UpperFence(result[i].q1, result[i].q3)

\* The records of a period with a defined value for the metric of the call,
\* a non-empty town and a non-empty flat type.
CompleteOfPeriod(month) ==
    LET Complete(r) == /\ IsNum(MetricValue(r, args.metric))
                       /\ r.town # ""
                       /\ r.flat_type # ""
    IN  SelectSeq(GroupGet(records, month), Complete)

\* C5: a period with fewer than 5 records that have a defined value for the
\* metric, a town and a flat type has no entry in calculateBoxPlotData's
\* output, even when it is in periodDomain and has 5 or more raw records.
C5_SparsePeriodAbsent ==
    BoxPlotCalled =>
        \A m \in Months :
            Len(CompleteOfPeriod(m)) < 5 =>
                \A i \in 1..Len(result) : result[i].month # m

\* A period of xDomain with 5 raw records, 4 of them complete, is absent,
\* while the other period has its entry.
C5_Witness ==
    /\ BoxPlotCalled
    /\ Len(result) = 1
    /\ \E m \in Months :
          /\ Includes(args.xDomain, m)
          /\ Len(GroupGet(records, m)) >= 5
          /\ Len(CompleteOfPeriod(m)) = 4
          /\ result[1].month # m

\* The output's periods are in the relative order they have in xDomain.
InDomainOrder ==
    \A i, j \in 1..Len(result) :
        i < j => IndexOf(args.xDomain, result[i].month)
                     < IndexOf(args.xDomain, result[j].month)

\* xDomain is in chronological order.
DomainChronological ==
    \A i, j \in 1..Len(args.xDomain) :
        i < j => DateGetTime(args.xDomain[i]).v <= DateGetTime(args.xDomain[j]).v

\* C6 as stated: for every periodDomain, also one not in chronological
\* order, the output's periods are in the order of periodDomain.
C6_OutputInDomainOrderAlways == BoxPlotCalled => InDomainOrder

\* C6 amended: for every periodDomain that is in chronological order, the
\* output's periods are in the order of periodDomain (for any other
\* periodDomain the output is in chronological order instead).
C6_OutputInDomainOrderWhenChronological ==
    (BoxPlotCalled /\ DomainChronological) => InDomainOrder

C6_Witness ==
    /\ BoxPlotCalled
    /\ args.xDomain = <<Month1, Month2>>
    /\ Len(result) = 2
    /\ result[1].month = Month1

\* C7: calculateBoxPlotData's output is in ascending chronological order of
\* period.
C7_OutputChronological ==
    BoxPlotCalled =>
        \A i, j \in 1..Len(result) :
            i < j => DateGetTime(result[i].month).v <= DateGetTime(result[j].month).v

\* A call over the months latest first, both with an entry.
C7_Witness ==
    /\ BoxPlotCalled
    /\ args.xDomain = <<Month2, Month1>>
    /\ Len(result) = 2
    /\ result[1].month = Month1

\* The valid derived values of an entry's period inside its fences.
InsideFences(e) ==
    LET valid == ValidOfPeriod(e.month)
    IN  { v \in { valid[j].value.v : j \in 1..Len(valid) } : ~BeyondFences(v, e) }

\* C8: min and max of an entry are the smallest and the largest observed
\* value of the period inside the fences: values of records, not the
\* fences and not an outlier's value.
C8_WhiskersAreObservedValues ==
    BoxPlotCalled =>
        \A i \in 1..Len(result) :
            LET e == result[i]
                inside == InsideFences(e)
            IN  /\ inside # {}
                /\ \E v \in inside : e.min = 4 * v /\ \A w \in inside : v <= w
                /\ \E v \in inside : e.max = 4 * v /\ \A w \in inside : v >= w
                /\ \A k \in 1..Len(e.outliers) :
                      e.outliers[k].price # e.min /\ e.outliers[k].price # e.max

\* An entry with an outlier above, whiskers from 200000 to 500000, and the
\* upper fence strictly between the upper whisker and the outlier.
C8_Witness ==
    /\ BoxPlotCalled
    /\ \E i \in 1..Len(result) :
          /\ Len(result[i].outliers) > 0
          /\ result[i].min < result[i].max
          /\ 2 * result[i].max < UpperFence(result[i].q1, result[i].q3)
          /\ UpperFence(result[i].q1, result[i].q3) < 2 * result[i].outliers[1].price

\* The box-plot entries of every period of the records, for the metric of
\* the call.
EntriesOfAllPeriods ==
    { processRecordGroup(GroupGet(records, m), args.metric) :
        m \in { records[i].month : i \in 1..Len(records) } } \ {null}

\* Every period's max and every outlier's value (times four).
Peaks ==
    { e.max : e \in EntriesOfAllPeriods }
        \cup UNION { { e.outliers[k].price : k \in 1..Len(e.outliers) } :
                     e \in EntriesOfAllPeriods }

\* C9: calculateGlobalYDomain returns a domain from 0 and, when a period
\* yields an entry, up to 1.05 times the maximum over all periods' max and
\* all outlier values.
C9_GlobalYDomainPadsMaximum ==
    GlobalYDomainCalled =>
        /\ result.lo = 0
        /\ EntriesOfAllPeriods # {} =>
              /\ ~result.literal
              /\ result.per = 400
              /\ \E p \in Peaks : result.hi = 105 * p
              /\ \A p \in Peaks : result.hi >= 105 * p

\* Two periods with an entry, the maximum being an outlier of one of them.
C9_Witness ==
    /\ GlobalYDomainCalled
    /\ Cardinality(EntriesOfAllPeriods) = 2
    /\ \E e \in EntriesOfAllPeriods :
          /\ Len(e.outliers) > 0
          /\ result.hi = 105 * e.outliers[1].price
          /\ \A f \in EntriesOfAllPeriods : f.max < e.outliers[1].price

\* ------------------------------------------------------------------------
\* Claims about useHdbData (specification HookSpec)
\* ------------------------------------------------------------------------

selectedFilters ==
    <<selectedTowns, selectedFlatTypes, selectedDateRange, selectedLeaseRange>>

\* C10: in every state yDomain, allLeaseYearsDomain and allMonthsXDomain are
\* what the full rawRecords and boxPlotMetric determine, and once records are
\* loaded a step that changes a filter (selected towns, flat types, date
\* range or lease range) and neither rawRecords nor boxPlotMetric leaves the
\* three as they were.
C10_FiltersLeaveStableDomains ==
    /\ [](stableDomains = StableDomains(rawRecords, boxPlotMetric))
    /\ [][ ( /\ Len(rawRecords) > 0
             /\ selectedFilters' # selectedFilters
             /\ rawRecords' = rawRecords
             /\ boxPlotMetric' = boxPlotMetric )
           => stableDomains' = stableDomains ]_vars

\* Records are loaded and the filters in force keep only a part of them,
\* whose own value domain is not the one in use.
C10_Witness ==
    /\ Len(rawRecords) > 0
    /\ selectedTowns # <<>>
    /\ LET filtered == FilteredRecords(rawRecords, selectedTowns, selectedFlatTypes,
                                       selectedDateRange, selectedLeaseRange)
       IN  /\ Len(filtered) > 0
           /\ Len(filtered) < Len(rawRecords)
           /\ calculateGlobalYDomain(filtered, boxPlotMetric) # stableDomains.yDomain
    /\ stableDomains.yDomain = calculateGlobalYDomain(rawRecords, boxPlotMetric)

\* ------------------------------------------------------------------------
\* ChartSpec: StackedBarChart over the points of a record collection
\* ------------------------------------------------------------------------

\* The first render of StackedBarChart: App passes stackedBarChartData as
\* data and stackedBarChartMode as mode.
StackedBarChartRender ==
    /\ chartMode = "none"
    /\ \E xDomain \in PeriodDomains, mode \in StackedBarChartModes :
          /\ chartData' = calculateStackedBarChartData(records, xDomain)
          /\ chartMode' = mode
          /\ processedData' = UseMemoProcessedData(chartData', mode)
    /\ UNCHANGED <<aggregatorVars, hookVars, componentVars>>

\* A render after setStackedBarChartMode: mode changes, data is the same
\* array, and the memo runs again.
StackedBarChartToggle ==
    /\ chartMode # "none"
    /\ \E mode \in StackedBarChartModes \ {chartMode} :
          /\ chartMode' = mode
          /\ processedData' = UseMemoProcessedData(chartData, mode)
    /\ UNCHANGED <<chartData, aggregatorVars, hookVars, componentVars>>

ChartNext ==
    \/ StackedBarChartRender
    \/ StackedBarChartToggle

ChartSpec == Init /\ [][ChartNext]_vars

\* ------------------------------------------------------------------------
\* Claims about the lease domain (Spec)
\* ------------------------------------------------------------------------

GlobalLeaseDomainCalled == call = "calculateGlobalLeaseDomain"

\* The leases, in twelfths of a year, of the records whose lease text parses.
ParsedLeases ==
    { y.v : y \in { parseRemainingLeaseToYears(records[i].remaining_lease) :
                       i \in 1..Len(records) } \ {null} }

\* lo = floor(m / 12) and hi = ceil(M / 12), said without a division.
IsFloorCeilOf(lo, hi, m, M) ==
    /\ 12 * lo <= m /\ m < 12 * lo + 12
    /\ 12 * (hi - 1) < M /\ M <= 12 * hi

LeaseDomainOf(leases, domain) ==
    /\ IF leases = {} THEN domain = <<0, 99>>
       ELSE \E m \in leases, M \in leases :
               /\ \A y \in leases : m <= y /\ y <= M
               /\ IsFloorCeilOf(domain[1], domain[2], m, M)
    /\ domain[1] <= domain[2]

\* C11: calculateGlobalLeaseDomain returns [floor(m), ceil(M)] for the
\* smallest and largest lease m and M over the records whose lease text
\* parses, [0, 99] when the collection is empty or no lease text parses, and
\* a lower bound that never exceeds the upper bound.
C11_LeaseDomainFloorCeil ==
    GlobalLeaseDomainCalled => LeaseDomainOf(ParsedLeases, result)

\* A lease with months is the smallest of several: the lower bound is
\* rounded down to a year no record has.
C11_Witness ==
    /\ GlobalLeaseDomainCalled
    /\ \E m \in ParsedLeases : m % 12 # 0 /\ result[1] * 12 < m
    /\ \E M \in ParsedLeases : result[2] * 12 = M /\ result[2] > result[1] + 1

\* ------------------------------------------------------------------------
\* Claims about calculateStackedBarChartData (Spec)
\* ------------------------------------------------------------------------

StackedBarCalled == call = "calculateStackedBarChartData"

\* The parsed prices of the records of a month whose price parses to a
\* number, by position in the collection.
PricesOfPeriod(month) ==
    LET priced == { i \in 1..Len(records) :
                      /\ records[i].month = month
                      /\ ~isNaN(parseFloat(records[i].resale_price)) }
    IN  [i \in priced |-> parseFloat(records[i].resale_price).v]

BandTotal(point) ==
    point.priceCounts["0-300k"] + point.priceCounts["300-500k"]
        + point.priceCounts["500-800k"] + point.priceCounts["800k-1m"]
        + point.priceCounts[">=1m"]

\* C12: in every point of calculateStackedBarChartData the five band counts
\* sum to totalTransactions, and totalTransactions is the number of the
\* period's records whose price parses to a number.
C12_BandsSumToTotal ==
    StackedBarCalled =>
        \A i \in 1..Len(result) :
            /\ BandTotal(result[i]) = result[i].totalTransactions
            /\ result[i].totalTransactions =
                   Cardinality(DOMAIN PricesOfPeriod(result[i].month))

\* A period with a record whose price does not parse beside records of two
\* bands.
C12_Witness ==
    /\ StackedBarCalled
    /\ \E i \in 1..Len(result) :
          /\ result[i].totalTransactions < Len(GroupGet(records, result[i].month))
          /\ result[i].priceCounts["0-300k"] > 0
          /\ result[i].priceCounts[">=1m"] > 0

\* The half-open interval of prices of a band.
InBand(price, category) ==
    CASE category = "0-300k" -> price < 300000
      [] category = "300-500k" -> 300000 <= price /\ price < 500000
      [] category = "500-800k" -> 500000 <= price /\ price < 800000
      [] category = "800k-1m" -> 800000 <= price /\ price < 1000000
      [] category = ">=1m" -> 1000000 <= price

BandsHalfOpen(point, prices) ==
    \A category \in DOMAIN point.priceCounts :
        point.priceCounts[category] =
            Cardinality({ i \in DOMAIN prices : InBand(prices[i], category) })

\* C13: every valid-priced record is counted in the band whose half-open
\* interval holds its price: [.., 300000), [300000, 500000),
\* [500000, 800000), [800000, 1000000), [1000000, ..); a price equal to a
\* boundary is counted in the band whose lower bound it is.
C13_BandsHalfOpen ==
    StackedBarCalled =>
        \A i \in 1..Len(result) :
            /\ DOMAIN result[i].priceCounts =
                   { PRICE_CATEGORIES[k] : k \in 1..Len(PRICE_CATEGORIES) }
            /\ BandsHalfOpen(result[i], PricesOfPeriod(result[i].month))

HasPrice(prices, price) == \E i \in DOMAIN prices : prices[i] = price

\* Periods with prices of exactly 800000 and 1000000, and of exactly 500000,
\* each counted in the band that starts there; none in the band below
\* 800000 or below 500000.
C13_Witness ==
    /\ StackedBarCalled
    /\ \E i \in 1..Len(result), j \in 1..Len(result) :
          /\ HasPrice(PricesOfPeriod(result[i].month), 800000)
          /\ HasPrice(PricesOfPeriod(result[i].month), 1000000)
          /\ result[i].priceCounts["800k-1m"] = 1
          /\ result[i].priceCounts[">=1m"] > 0
          /\ result[i].priceCounts["500-800k"] = 0
          /\ HasPrice(PricesOfPeriod(result[j].month), 500000)
          /\ result[j].priceCounts["500-800k"] > 0
          /\ result[j].priceCounts["300-500k"] = 0

\* A price of exactly 300000 is counted in '300-500k' and not in '0-300k'.
C13_WitnessLowestBoundary ==
    /\ StackedBarCalled
    /\ \E i \in 1..Len(result) :
          /\ HasPrice(PricesOfPeriod(result[i].month), 300000)
          /\ result[i].priceCounts["300-500k"] = 1
          /\ result[i].priceCounts["0-300k"] = 0

\* One point per period of xDomain, in its order; all counts 0 for a period
\* without a valid-priced record.
OneBarPerPeriod ==
    /\ Len(result) = Len(args.xDomain)
    /\ \A i \in 1..Len(args.xDomain) :
          /\ result[i].month = args.xDomain[i]
          /\ DOMAIN PricesOfPeriod(args.xDomain[i]) = {} =>
                /\ result[i].totalTransactions = 0
                /\ \A category \in DOMAIN result[i].priceCounts :
                       result[i].priceCounts[category] = 0

\* C14 as stated: for every record collection and every periodDomain,
\* calculateStackedBarChartData returns one point per period, in periodDomain
\* order, with all counts 0 for a period without a valid-priced record.
C14_OneBarPerPeriodAlways == StackedBarCalled => OneBarPerPeriod

\* C14 amended: for every NON-EMPTY record collection and every
\* periodDomain, calculateStackedBarChartData returns one point per period,
\* in periodDomain order, with all counts 0 for a period without a
\* valid-priced record.
C14_OneBarPerPeriodWhenRecords ==
    (StackedBarCalled /\ Len(records) > 0) => OneBarPerPeriod

\* A call over two periods: one with valid-priced records, and before it one
\* whose only record has a price that does not parse or that has no record.
C14_Witness ==
    /\ StackedBarCalled
    /\ Len(result) = 2
    /\ result[1].totalTransactions = 0
    /\ result[2].totalTransactions > 0

\* ------------------------------------------------------------------------
\* Claims about StackedBarChart (ChartSpec)
\* ------------------------------------------------------------------------

\* The double 100.
Hundred == DoubleTimes(DoubleDivide(1, 1), 100)

\* |a - b| <= slack, for natural numbers of any size.
BigWithin(a, b, slack) ==
    /\ ~BigLess(BigPlus(a, slack, 0), b)
    /\ ~BigLess(BigPlus(b, slack, 0), a)

\* 100 * count as a number of units of 2^-52.
HundredTimes(count) == BigTimes(BigPowerOfTwo(52), 100 * count, 0)

\* The percentage x differs from 100 * count / total by at most 2^-45:
\* total * x from 100 * count by at most total * 2^-45.
IsPercentageOf(x, count, total) ==
    BigWithin(BigTimes(FixedPoint(x), total, 0), HundredTimes(count),
              BigOfNat(total * 2 ^ 7))

\* The five percentages of an item, added without rounding, in units of
\* 2^-52.
RECURSIVE ExactSumUpTo(_, _)
ExactSumUpTo(item, k) ==
    IF k = 0 THEN <<>>
    ELSE BigPlus(ExactSumUpTo(item, k - 1),
                 FixedPoint(item.priceCounts[PRICE_CATEGORIES[k]]), 0)

Categories == { PRICE_CATEGORIES[k] : k \in 1..Len(PRICE_CATEGORIES) }

\* The item shown for a point in percentage mode: each percentage is
\* count / total * 100 and they sum to 100, both up to the rounding of
\* doubles, or all are 0 when the point has no transaction.
ShowsPercentages(item, d) ==
    /\ item.month = d.month
    /\ DOMAIN item.priceCounts = Categories
    /\ IF d.totalTransactions > 0
       THEN /\ \A category \in Categories :
                  IsPercentageOf(item.priceCounts[category], d.priceCounts[category],
                                 d.totalTransactions)
            /\ BigWithin(ExactSumUpTo(item, 5), HundredTimes(1), BigPowerOfTwo(12))
       ELSE \A category \in Categories : item.priceCounts[category] = DoubleZero

PercentagesShown ==
    chartMode = "percentage" =>
        /\ Len(processedData) = Len(chartData)
        /\ \A i \in 1..Len(chartData) : ShowsPercentages(processedData[i], chartData[i])

CountsShown == chartMode = "count" => processedData = chartData

\* A change of mode leaves the raw counts as they are.
ToggleKeepsCounts ==
    (chartMode # "none" /\ chartMode' # chartMode) => chartData' = chartData

\* C15 as stated: in percentage mode the five percentages of every period
\* with transactions sum to 100 (stacked by d3.stack in the order of
\* PRICE_CATEGORIES, the last series ends at 100), those of a period
\* without transactions are all 0, and count mode shows the raw counts.
C15_PercentagesSumTo100 ==
    /\ PercentagesShown
    /\ CountsShown
    /\ chartMode = "percentage" =>
          \A i \in 1..Len(chartData) :
              chartData[i].totalTransactions > 0 =>
                  StackUpTo(processedData[i], 5) = Hundred

\* C15 amended: in percentage mode every displayed percentage is
\* count / totalTransactions * 100 and the five of a period sum to 100, both
\* up to the rounding of double arithmetic (within 2^-45 and 2^-40), when
\* totalTransactions > 0, and all five are 0 when it is 0; in count mode,
\* also after a toggle from percentage mode, the raw counts are shown
\* unchanged.
C15_PercentagesSumTo100WithinRounding ==
    /\ [](PercentagesShown /\ CountsShown)
    /\ [][ToggleKeepsCounts]_vars

\* Percentage mode over two periods: one with one record below 300000 among
\* three, whose stacked percentages end beside 100, and one without
\* transactions.
C15_Witness ==
    /\ chartMode = "percentage"
    /\ \E i \in 1..Len(chartData), j \in 1..Len(chartData) :
          /\ chartData[i].totalTransactions = 3
          /\ chartData[i].priceCounts["0-300k"] = 1
          /\ StackUpTo(processedData[i], 5) # Hundred
          /\ chartData[j].totalTransactions = 0

\* ------------------------------------------------------------------------
\* Claims about calculateSummaryStats and the time-series points (Spec)
\* ------------------------------------------------------------------------

SummaryCalled == call = "calculateSummaryStats"

\* The records of a list whose price parses to a number, in their order.
Priced(list) ==
    LET Parses(r) == ~isNaN(parseFloat(r.resale_price)) IN SelectSeq(list, Parses)

\* The parsed prices of a list of records whose price parses.
PricesOf(priced) ==
    LET Price(r) == parseFloat(r.resale_price).v IN Map(priced, Price)

\* Every field of a summary but count.
StatFields ==
    {"median", "min", "max", "median_psf", "min_psf", "max_psf",
     "grossTransactionValue", "median_price_per_lease", "min_price_per_lease",
     "max_price_per_lease", "millionDollarTransactionPercentage"}

\* C16: calculateSummaryStats returns count = 0 and every other field
\* undefined when the collection is empty or no record has a parseable
\* price.
C16_NoValidPriceCountZero ==
    (SummaryCalled /\ Priced(records) = <<>>) =>
        /\ result.count = 0
        /\ DOMAIN result = StatFields \cup {"count"}
        /\ \A field \in StatFields : result[field] = undefined

\* A collection that is not empty and whose only record has a price that
\* does not parse.
C16_Witness ==
    /\ SummaryCalled
    /\ Len(records) > 0
    /\ Priced(records) = <<>>
    /\ result.count = 0

\* The summary of the prices of the valid-priced records: the median is
\* held times 4, the percentage in units of 1 / PercentUnit.
SummarisesPrices(summary, prices) ==
    /\ summary.count = Len(prices)
    /\ \A i \in 1..Len(prices) :
          summary.min.v <= prices[i] /\ prices[i] <= summary.max.v
    /\ \E i \in 1..Len(prices) : summary.min.v = prices[i]
    /\ \E i \in 1..Len(prices) : summary.max.v = prices[i]
    /\ summary.grossTransactionValue = Num(d3sum(prices))
    /\ 4 * summary.min.v <= summary.median.v
    /\ summary.median.v <= 4 * summary.max.v
    /\ summary.millionDollarTransactionPercentage.v * Len(prices) =
          100 * PercentUnit
              * Cardinality({ i \in 1..Len(prices) : prices[i] >= 1000000 })
    /\ Len(prices) = 1 =>
          /\ summary.min.v = prices[1]
          /\ summary.median.v = 4 * prices[1]
          /\ summary.max.v = prices[1]
          /\ summary.grossTransactionValue.v = prices[1]

\* C17: for a collection with at least one valid-priced record,
\* calculateSummaryStats returns count = the number of valid-priced records,
\* min and max = the smallest and largest valid price, grossTransactionValue
\* = their sum, min <= median <= max, millionDollarTransactionPercentage =
\* 100 * (number of prices >= 1000000) / count; for a single record min,
\* median, max and grossTransactionValue are its price.
C17_SummaryOfValidPrices ==
    (SummaryCalled /\ Priced(records) # <<>>) =>
        SummarisesPrices(result, PricesOf(Priced(records)))

\* A collection with a record whose price does not parse, prices of exactly
\* 1000000 and lower ones, and a median strictly between min and max.
C17_Witness ==
    /\ SummaryCalled
    /\ 0 < result.count /\ result.count < Len(records)
    /\ 4 * result.min.v < result.median.v
    /\ result.median.v < 4 * result.max.v
    /\ result.max.v = 1000000
    /\ result.millionDollarTransactionPercentage.v > 0
    /\ result.millionDollarTransactionPercentage.v < 50 * PercentUnit

\* The price per square foot of the records of a list that have a valid
\* price and an area > 0, and the price per lease year of those that have a
\* valid price and a lease > 0, each in its unit.
PsfOf(list) ==
    LET HasArea(n) == ~isNaN(n.price) /\ ~isNaN(n.area_sqm) /\ n.area_sqm.v > 0
        Psf(n) == n.price.v * (AreaUnit \div n.area_sqm.v)
    IN  Map(SelectSeq(Map(list, Normalize), HasArea), Psf)

PerLeaseOf(list) ==
    LET HasLease(n) ==
            ~isNaN(n.price) /\ n.lease_years # null /\ n.lease_years.v > 0
        PerLease(n) == n.price.v * (LeaseUnit \div n.lease_years.v)
    IN  Map(SelectSeq(Map(list, Normalize), HasLease), PerLease)

\* The statistics of the summary are those of the two subsets, undefined
\* for an empty one.
SummarisesSubsets(summary, priced, psf, perLease) ==
    /\ summary.count = Len(priced)
    /\ summary.median_psf = d3quantile(psf, 2)
    /\ summary.min_psf = d3min(psf)
    /\ summary.max_psf = d3max(psf)
    /\ summary.median_price_per_lease = d3quantile(perLease, 2)
    /\ summary.min_price_per_lease = d3min(perLease)
    /\ summary.max_price_per_lease = d3max(perLease)

\* The medians of a point of the time series are those of the two subsets
\* of its period, undefined for an empty one.
PointOfSubsets(point, priced, psf, perLease) ==
    /\ priced # <<>> => point.transactionCount = Num(Len(priced))
    /\ point.median_psf = d3quantile(psf, 2)
    /\ point.median_price_per_lease = d3quantile(perLease, 2)

PointOfSubsetsOf(point, list) ==
    PointOfSubsets(point, Priced(list), PsfOf(list), PerLeaseOf(list))

\* C18: in calculateSummaryStats and in each period of
\* calculateLineChartData the price-per-sqft statistics are those of the
\* valid-priced records with area > 0 and the price-per-lease-year
\* statistics those of the valid-priced records with lease > 0, each subset
\* filtered on its own; a record lacking one of the two still counts for
\* the other and for count, and a statistic of an empty subset is
\* undefined, never 0.
C18_SubsetsFilteredIndependently ==
    /\ (SummaryCalled /\ Priced(records) # <<>>) =>
          SummarisesSubsets(result, Priced(records), PsfOf(records), PerLeaseOf(records))
    /\ LineChartCalled =>
          \A i \in 1..Len(result.lineChartData) :
              PointOfSubsetsOf(result.lineChartData[i],
                               GroupGet(records, result.lineChartData[i].month))

\* A summary of one record, which lacks an area: counted, with statistics
\* per lease year and none per square foot.
C18_Witness ==
    /\ SummaryCalled
    /\ Len(records) = 1
    /\ result.count = 1
    /\ PsfOf(records) = <<>> /\ PerLeaseOf(records) # <<>>
    /\ result.median_psf = undefined /\ result.min_psf = undefined
    /\ result.median_price_per_lease # undefined
    /\ result.min_price_per_lease # undefined

\* A point of the time series of a period whose only record lacks a lease:
\* counted, with a median per square foot and none per lease year.
C18_WitnessLineChart ==
    /\ LineChartCalled
    /\ \E i \in 1..Len(result.lineChartData) :
          /\ result.lineChartData[i].transactionCount = Num(1)
          /\ result.lineChartData[i].median_psf # undefined
          /\ result.lineChartData[i].median_price_per_lease = undefined

\* The point of a period with valid-priced records: the percentage is held
\* in units of 1 / PercentUnit.
PointOfPrices(point, prices) ==
    /\ point.transactionCount = Num(Len(prices))
    /\ point.grossTransactionValue = Num(d3sum(prices))
    /\ point.millionDollarTransactionPercentage # undefined
    /\ point.millionDollarTransactionPercentage.v * Len(prices) =
          100 * PercentUnit
              * Cardinality({ i \in 1..Len(prices) : prices[i] >= 1000000 })

\* C19: for every period of periodDomain with at least one valid-priced
\* record the point's transactionCount is the number of the period's records
\* with a parseable price (records lacking area or lease included), its
\* grossTransactionValue the sum of those prices and its
\* millionDollarTransactionPercentage 100 * (number of those prices >=
\* 1000000) / transactionCount.
C19_PointOfValidPrices ==
    LineChartCalled =>
        \A i \in 1..Len(result.lineChartData) :
            Priced(GroupGet(records, result.lineChartData[i].month)) # <<>> =>
                PointOfPrices(result.lineChartData[i],
                    PricesOf(Priced(GroupGet(records, result.lineChartData[i].month))))

\* A period of four valid-priced records, one of them at 1000000 and one
\* lacking an area: 25 percent.
C19_Witness ==
    /\ LineChartCalled
    /\ \E i \in 1..Len(result.lineChartData) :
          /\ result.lineChartData[i].transactionCount = Num(4)
          /\ result.lineChartData[i].millionDollarTransactionPercentage
                = Num(25 * PercentUnit)
          /\ Len(PsfOf(GroupGet(records, result.lineChartData[i].month))) = 3

GapFields ==
    {"transactionCount", "grossTransactionValue", "median_psf",
     "median_price_per_lease", "millionDollarTransactionPercentage"}

\* C20: for a non-empty record collection every period of periodDomain
\* without a valid-priced record yields a point whose transactionCount,
\* grossTransactionValue, median_psf, median_price_per_lease and
\* millionDollarTransactionPercentage are all undefined, never 0.
C20_GapPointUndefined ==
    (LineChartCalled /\ Len(records) > 0) =>
        /\ Len(result.lineChartData) = Len(args.xDomain)
        /\ \A i \in 1..Len(args.xDomain) :
              Priced(GroupGet(records, args.xDomain[i])) = <<>> =>
                  \A field \in GapFields :
                      result.lineChartData[i][field] = undefined

\* Two periods: the first has a record, whose price does not parse, the
\* second has valid-priced records.
C20_Witness ==
    /\ LineChartCalled
    /\ Len(args.xDomain) = 2
    /\ GroupGet(records, args.xDomain[1]) # <<>>
    /\ Priced(GroupGet(records, args.xDomain[1])) = <<>>
    /\ result.lineChartData[1].transactionCount = undefined
    /\ result.lineChartData[2].transactionCount # undefined

\* ------------------------------------------------------------------------
\* Claims about the domains of calculateLineChartData (Spec)
\* ------------------------------------------------------------------------

\* The points of data where a field is defined.
DefinedAt(data, field) == { i \in 1..Len(data) : data[i][field] # undefined }

\* domain is [0, observedMax * times / (per / unit)] computed from data, where
\* observedMax is the largest defined value of the field, held in units of
\* 1 / unit, and 0 when no point defines the field; every defined value lies
\* within it.
IsPaddedMaxOf(domain, data, field, defined, times, per, unit) ==
    /\ ~domain.literal
    /\ domain.lo = 0
    /\ domain.per = per
    /\ \A i \in defined : data[i][field].v * times <= domain.hi
    /\ defined # {} => \E i \in defined : data[i][field].v * times = domain.hi
    /\ defined = {} => domain.hi = 0
    /\ \A i \in defined :
          /\ domain.lo <= data[i][field].v
          /\ data[i][field].v * (per \div unit) <= domain.hi

PaddedMaxOf(domain, data, field, times, per, unit) ==
    IsPaddedMaxOf(domain, data, field, DefinedAt(data, field), times, per, unit)

\* C21: for a non-empty record collection each of the five domains returned
\* by calculateLineChartData is [0, observedMax * p], observedMax being the
\* largest value of the metric over the points where it is defined (0 when
\* it is defined nowhere) and p being 1.2 for the transaction count and 1.05
\* for the four others; every defined value of a point lies within its
\* metric's domain.
C21_DomainsPadObservedMax ==
    (LineChartCalled /\ Len(records) > 0) =>
        /\ PaddedMaxOf(result.transactionCountYDomain, result.lineChartData,
                       "transactionCount", 12, 10, 1)
        /\ PaddedMaxOf(result.grossTransactionValueYDomain, result.lineChartData,
                       "grossTransactionValue", 105, 100, 1)
        /\ PaddedMaxOf(result.medianPsfYDomain, result.lineChartData,
                       "median_psf", 105, 400, 4)
        /\ PaddedMaxOf(result.medianPricePerLeaseYDomain, result.lineChartData,
                       "median_price_per_lease", 105, 400, 4)
        /\ PaddedMaxOf(result.millionDollarPercentageYDomain, result.lineChartData,
                       "millionDollarTransactionPercentage", 105,
                       100 * PercentUnit, PercentUnit)

\* Two periods with different transaction counts, gross values and medians
\* per square foot: the smaller ones lie strictly below the observed maxima.
C21_Witness ==
    /\ LineChartCalled
    /\ Len(result.lineChartData) = 2
    /\ DefinedAt(result.lineChartData, "median_psf") = {1, 2}
    /\ result.lineChartData[1].transactionCount.v
          < result.lineChartData[2].transactionCount.v
    /\ result.lineChartData[1].grossTransactionValue.v
          > result.lineChartData[2].grossTransactionValue.v
    /\ result.lineChartData[1].median_psf.v # result.lineChartData[2].median_psf.v
    /\ result.transactionCountYDomain.hi
          = 12 * result.lineChartData[2].transactionCount.v
    /\ result.grossTransactionValueYDomain.hi
          = 105 * result.lineChartData[1].grossTransactionValue.v

\* One period is a gap and the other has records none of which has an
\* area: no point has a median per square foot, the domain is [0, 0].
C21_WitnessGap ==
    /\ LineChartCalled
    /\ Len(result.lineChartData) = 2
    /\ DefinedAt(result.lineChartData, "transactionCount") = {1}
    /\ DefinedAt(result.lineChartData, "median_psf") = {}
    /\ result.medianPsfYDomain.hi = 0
    /\ result.transactionCountYDomain.hi > 0

\* ------------------------------------------------------------------------
\* ParserSpec: parseRemainingLeaseToYears applied to a text
\* ------------------------------------------------------------------------

\* Runs of digits and the numbers they write in base 10.
DecimalTexts ==
    { [text |-> <<"0">>, number |-> 0],
      [text |-> <<"5">>, number |-> 5],
      [text |-> <<"0", "4">>, number |-> 4],
      [text |-> <<"1", "2">>, number |-> 12],
      [text |-> <<"1", "3">>, number |-> 13],
      [text |-> <<"6", "9">>, number |-> 69],
      [text |-> <<"9", "9">>, number |-> 99] }

\* White space between the parts of a lease text.
Gaps == { <<" ">>, <<" ", " ">> }

YearWords == { <<"y", "e", "a", "r">>, <<"y", "e", "a", "r", "s">> }

MonthWords ==
    { <<"m", "o", "n", "t", "h">>, <<"m", "o", "n", "t", "h", "s">> }

\* '<int> year(s)'
YearsText(years, gap, word) == years.text \o gap \o word

\* '<int> year(s) <int> month(s)'
YearsMonthsText(yearsText, gap, months, word) ==
    yearsText \o gap \o months.text \o gap \o word

\* The lease texts of the two forms, each with the value it stands for in
\* twelfths of a year.
WellFormedLeases ==
    { [text |-> YearsText(f.years, f.gap, f.yearWord),
       twelfths |-> 12 * f.years.number] :
      f \in [years : DecimalTexts, gap : Gaps, yearWord : YearWords] }
    \cup
    { [text |-> YearsMonthsText(YearsText(f.years, f.gap, f.yearWord),
                                f.gap, f.months, f.monthWord),
       twelfths |-> 12 * f.years.number + f.months.number] :
      f \in [years : DecimalTexts, gap : Gaps, yearWord : YearWords,
             months : DecimalTexts, monthWord : MonthWords] }

\* Texts in which no '<int> year(s)' occurs: the absent text, the empty one,
\* "garbage", "69years", "years 04 months", "69 months", "69 yrs".
UnmatchedLeases ==
    { UndefinedText,
      <<>>,
      <<"g", "a", "r", "b", "a", "g", "e">>,
      <<"6", "9", "y", "e", "a", "r", "s">>,
      <<"y", "e", "a", "r", "s", " ", "0", "4", " ", "m", "o", "n", "t", "h", "s">>,
      <<"6", "9", " ", "m", "o", "n", "t", "h", "s">>,
      <<"6", "9", " ", "y", "r", "s">> }

\* Texts in which '<int> year(s)' occurs among other characters: "about 69
\* years", "69 years 04", "69 years 04months", "69 years, 04 months".
EmbeddedLeases ==
    { <<"a", "b", "o", "u", "t", " ", "6", "9", " ", "y", "e", "a", "r", "s">>,
      <<"6", "9", " ", "y", "e", "a", "r", "s", " ", "0", "4">>,
      <<"6", "9", " ", "y", "e", "a", "r", "s", " ", "0", "4",
        "m", "o", "n", "t", "h", "s">>,
      <<"6", "9", " ", "y", "e", "a", "r", "s", ",", " ", "0", "4", " ",
        "m", "o", "n", "t", "h", "s">> }

LeaseTexts ==
    { f.text : f \in WellFormedLeases } \cup UnmatchedLeases \cup EmbeddedLeases

ParserSpecInit ==
    /\ NoCall /\ HookInit /\ NoChart
    /\ leaseStr \in LeaseTexts
    /\ leaseParsed = FALSE
    /\ leaseYears = null
    /\ NoDateRangeSelector
    /\ NoLeaseRangeSelector
    /\ NoRequest

CallParseRemainingLeaseToYears ==
    /\ ~leaseParsed
    /\ leaseParsed' = TRUE
    /\ leaseYears' = parseRemainingLeaseToYears(leaseStr)
    /\ UNCHANGED <<leaseStr, aggregatorVars, hookVars, chartVars, dateSelectorVars,
                   leaseSelectorVars, handlerVars>>

ParserNext == CallParseRemainingLeaseToYears

ParserSpec == ParserSpecInit /\ [][ParserNext]_vars

\* ------------------------------------------------------------------------
\* Claims about parseRemainingLeaseToYears (ParserSpec)
\* ------------------------------------------------------------------------

\* C22: parseRemainingLeaseToYears returns years + months / 12 for a text
\* of the form '<int> year(s)' optionally followed by '<int> month(s)'
\* (months are 0 when absent, and 12 or more are taken as they are), and
\* null for the absent text, the empty one and a text the pattern does not
\* match; it is total.
C22_LeaseParsed ==
    leaseParsed =>
        /\ \A f \in WellFormedLeases :
              f.text = leaseStr => leaseYears = Num(f.twelfths)
        /\ leaseStr \in UnmatchedLeases => leaseYears = null
        /\ leaseYears = null \/ (IsNum(leaseYears) /\ leaseYears.v >= 0)

\* "69 years 04 months" parsed to 69 + 4/12.
C22_Witness ==
    /\ leaseParsed
    /\ leaseStr = <<"6", "9", " ", "y", "e", "a", "r", "s", " ", "0", "4",
                    " ", "m", "o", "n", "t", "h", "s">>
    /\ leaseYears = Num(12 * 69 + 4)

\* "5 year 13 months" parsed to 5 + 13/12.
C22_WitnessManyMonths ==
    /\ leaseParsed
    /\ leaseStr = <<"5", " ", "y", "e", "a", "r", " ", "1", "3",
                    " ", "m", "o", "n", "t", "h", "s">>
    /\ leaseYears = Num(12 * 5 + 13)

\* "garbage" parsed to null.
C22_WitnessUnmatched ==
    /\ leaseParsed
    /\ leaseStr = <<"g", "a", "r", "b", "a", "g", "e">>
    /\ leaseYears = null

\* ------------------------------------------------------------------------
\* Claims about the aggregators' arguments (Spec)
\* ------------------------------------------------------------------------

IsDefaultDateRange(dateRange, allMonths) ==
    /\ Len(allMonths) > 0
    /\ dateRange[1] = allMonths[1]
    /\ dateRange[2] = allMonths[Len(allMonths)]

IsDefaultLeaseRange(leaseRange, allLeaseYearsDomain) ==
    /\ Len(allLeaseYearsDomain) > 0
    /\ leaseRange[1] = allLeaseYearsDomain[1]
    /\ leaseRange[2] = allLeaseYearsDomain[2]

\* The labels of activeFilters; FilterSummary renders nothing when there is
\* none.
ActiveFilters(towns, flatTypes, dateRange, leaseRange, domains) ==
    (IF Len(towns) > 0 THEN {"Town"} ELSE {})
        \cup (IF Len(flatTypes) > 0 THEN {"Room Type"} ELSE {})
        \cup (IF ~IsDefaultLeaseRange(leaseRange, domains.allLeaseYearsDomain)
              THEN {"Lease"} ELSE {})
        \cup (IF ~IsDefaultDateRange(dateRange, domains.allMonthsXDomain)
              THEN {"Date Range"} ELSE {})

\* ------------------------------------------------------------------------
\* Claims about resetFilters (HookSpec)
\* ------------------------------------------------------------------------

\* fetchAllHdbData resolved with at least one record.
DataLoaded == phase = "settled" /\ error = NoError /\ rawRecords # <<>>

\* Every filter is in its default state and FilterSummary shows none.
FiltersAtDefault(towns, flatTypes, dateRange, leaseRange, domains) ==
    /\ towns = <<>>
    /\ flatTypes = <<>>
    /\ dateRange = <<domains.allMonthsXDomain[1],
                     domains.allMonthsXDomain[Len(domains.allMonthsXDomain)]>>
    /\ leaseRange = domains.allLeaseYearsDomain
    /\ ActiveFilters(towns, flatTypes, dateRange, leaseRange, domains) = {}

\* C24: in any state reached after data has loaded, resetFilters leaves
\* selectedTowns and selectedFlatTypes empty, selectedDateRange = [first
\* month, last month] of allMonthsXDomain, selectedLeaseRange =
\* allLeaseYearsDomain, the three chart metrics and modes 'resale_price',
\* 'grossTransactionValue' and 'percentage', and FilterSummary without an
\* active filter.
C24_ResetRestoresDefaults ==
    [][(DataLoaded /\ ResetFilters) =>
          /\ FiltersAtDefault(selectedTowns', selectedFlatTypes',
                              selectedDateRange', selectedLeaseRange',
                              stableDomains')
          /\ boxPlotMetric' = "resale_price"
          /\ lineChartMetric' = "grossTransactionValue"
          /\ stackedBarChartMode' = "percentage"]_vars

\* resetFilters does restore every default when at least one lease of the
\* loaded records parses to other than the fallback domain [0, 99].
C24_ResetRestoresDefaultsUnlessFallbackLeaseDomain ==
    [][(DataLoaded /\ ResetFilters /\ stableDomains.allLeaseYearsDomain # <<0, 99>>) =>
          /\ FiltersAtDefault(selectedTowns', selectedFlatTypes',
                              selectedDateRange', selectedLeaseRange',
                              stableDomains')
          /\ boxPlotMetric' = "resale_price"
          /\ lineChartMetric' = "grossTransactionValue"
          /\ stackedBarChartMode' = "percentage"]_vars

\* ------------------------------------------------------------------------
\* Claims about loadData (HookLiveSpec)
\* ------------------------------------------------------------------------

\* What every memo of useHdbData is for an empty rawRecords.
ShowsNoData(aggregates, domains) ==
    /\ aggregates.filteredRecords = <<>>
    /\ aggregates.processedData = <<>>
    /\ aggregates.summaryStats = CountZero
    /\ aggregates.lineChart.lineChartData = <<>>
    /\ IsLiteralDomain(aggregates.lineChart.transactionCountYDomain, 0, 100)
    /\ IsLiteralDomain(aggregates.lineChart.grossTransactionValueYDomain, 0, 1000000)
    /\ IsLiteralDomain(aggregates.lineChart.medianPsfYDomain, 0, 1000)
    /\ IsLiteralDomain(aggregates.lineChart.medianPricePerLeaseYDomain, 0, 1000)
    /\ IsLiteralDomain(aggregates.lineChart.millionDollarPercentageYDomain, 0, 5)
    /\ aggregates.stackedBarChartData = <<>>
    /\ IsLiteralDomain(aggregates.stackedBarChartYDomain, 0, 100)
    /\ domains.allMonthsXDomain = <<>>
    /\ IsLiteralDomain(domains.yDomain, 0, 1000000)
    /\ domains.allLeaseYearsDomain = <<0, 99>>

FetchSettled == phase = "settled"

FetchFailed == FetchSettled /\ error # NoError

\* C25: loading is true from the first render until the fetch settles and
\* false from then on, whether the fetch succeeded or failed, and it does
\* become false; error is non-null only once the fetch has failed, and
\* after a failed fetch rawRecords is empty and every aggregate is its
\* empty-input result, whatever the filters are.
C25_LoadingSettles ==
    /\ [](loading <=> ~FetchSettled)
    /\ [][~loading => ~loading']_vars
    /\ <>(~loading)
    /\ [](error # NoError => FetchFailed)
    /\ [][(error = NoError /\ error' # NoError) => LoadDataRejected]_vars
    /\ [](FetchFailed =>
            /\ rawRecords = <<>>
            /\ ShowsNoData(Aggregates(Scope, stableDomains), stableDomains))

\* The fetch failed and the user has since chosen a town and a date range.
C25_Witness ==
    /\ FetchFailed
    /\ ~loading
    /\ loadingMessage = ""
    /\ selectedTowns # <<>>
    /\ Truthy(selectedDateRange[1])
    /\ rawRecords = <<>>

\* The fetch succeeded.
C25_WitnessLoaded ==
    /\ FetchSettled
    /\ ~loading
    /\ error = NoError
    /\ rawRecords # <<>>

\* ------------------------------------------------------------------------
\* DateRangeSelector
\* ------------------------------------------------------------------------

DigitChar(d) == CHOOSE c \in DOMAIN DigitValues : DigitValues[c] = d

\* String(n) of a natural number.
RECURSIVE StringOfNat(_)
StringOfNat(n) ==
    IF n < 10 THEN <<DigitChar(n)>>
    ELSE Append(StringOfNat(n \div 10), DigitChar(n % 10))

\* s.padStart(2, '0')
PadStart2(s) == IF Len(s) < 2 THEN <<"0">> \o s ELSE s

\* `${year}-${String(monthIndex + 1).padStart(2, '0')}`
MonthStringOf(year, monthIndex) ==
    year \o <<"-">> \o PadStart2(StringOfNat(monthIndex + 1))

\* The month buttons renderPicker draws: groupedMonths holds, under the key
\* String(year), the index month - 1 of every month of allMonths, where
\* [year, month] = monthStr.split('-').map(Number).
MonthButtons(allMonths) ==
    { [year |-> StringOfNat(DecimalValue(allMonths[i], 1, 5)),
       monthIndex |-> DecimalValue(allMonths[i], 6, 8) - 1] :
      i \in 1..Len(allMonths) }

\* The times of this section are in hours since the epoch.
\* new Date(text).getTime() of a "YYYY-MM" text: midnight UTC.
HoursOfDate(text) ==
    IF isNaN(DateGetTime(text)) THEN NaN
    ELSE Num(24 * DateGetTime(text).v)

\* new Date(parseInt(year), monthIndex).getTime(): midnight local time.
HoursOfLocalDate(year, monthIndex, offset) ==
    Num(24 * DaysOfYearMonth(parseInt(year), monthIndex + 1).v - offset)

\* a > b on two times: false when either is NaN.
TimeGreater(ta, tb) == ~isNaN(ta) /\ ~isNaN(tb) /\ ta.v > tb.v

\* renderPicker's isDisabled of a month button.
IsDisabledMonth(openPicker, selectedRange, monthDate) ==
    \/ openPicker = "start" /\ TimeGreater(monthDate, HoursOfDate(selectedRange[2]))
    \/ openPicker = "end" /\ TimeGreater(HoursOfDate(selectedRange[1]), monthDate)

\* handleMonthSelect passing the month for one end and the other end as it
\* is.
HandleMonthSelectUnclamped(openPicker, selectedRange, monthString) ==
    IF openPicker = "start"
    THEN <<monthString, selectedRange[2]>>
    ELSE <<selectedRange[1], monthString>>

\* The range handleMonthSelect passes to onChange.
HandleMonthSelectOf(openPicker, selectedRange, monthString) ==
    IF openPicker = "start"
    THEN <<monthString,
           IF TimeGreater(HoursOfDate(monthString), HoursOfDate(selectedRange[2]))
           THEN monthString ELSE selectedRange[2]>>
    ELSE <<IF TimeGreater(HoursOfDate(selectedRange[1]), HoursOfDate(monthString))
           THEN monthString ELSE selectedRange[1],
           monthString>>

handleMonthSelect(openPicker, selectedRange, year, monthIndex) ==
    HandleMonthSelectOf(openPicker, selectedRange, MonthStringOf(year, monthIndex))

\* The range handleQuickFilterClick passes to onChange.
handleQuickFilterClick(allMonths, months) ==
    <<allMonths[(IF Len(allMonths) - months > 0 THEN Len(allMonths) - months ELSE 0) + 1],
      allMonths[Len(allMonths)]>>

\* ------------------------------------------------------------------------
\* DateSelectorSpec: DateRangeSelector under its parent, which hands the
\* range passed to onChange back as selectedRange
\* ------------------------------------------------------------------------

\* "2023-10" .. "2024-02", chronological as allMonthsXDomain is.
SelectorMonths ==
    << <<"2", "0", "2", "3", "-", "1", "0">>, <<"2", "0", "2", "3", "-", "1", "1">>,
       Month1, Month2, <<"2", "0", "2", "4", "-", "0", "2">> >>

\* Local time behind UTC, at UTC, and ahead of it (Singapore).
TimezoneOffsets == {-5, 0, 8}

\* The number of months of each quick filter button.
QuickFilterMonths == {3, 6, 12}

\* The first render after the data has loaded: the range is the one loadData
\* set, the last 12 months.
DateSelectorSpecInit ==
    /\ NoCall /\ HookInit /\ NoChart /\ NoParse /\ NoLeaseRangeSelector /\ NoRequest
    /\ dateAllMonths = SelectorMonths
    /\ dateSelectedRange = handleQuickFilterClick(SelectorMonths, 12)
    /\ dateOpenPicker = "null"
    /\ dateOnChange = <<>>
    /\ timezoneOffset \in TimezoneOffsets

dateSelectorOthers ==
    <<aggregatorVars, hookVars, chartVars, parserVars, leaseSelectorVars, handlerVars>>

\* A click on the Start Date or the End Date button.
DateTogglePicker ==
    /\ \E picker \in {"start", "end"} :
          dateOpenPicker' = IF dateOpenPicker = picker THEN "null" ELSE picker
    /\ UNCHANGED <<dateAllMonths, dateSelectedRange, dateOnChange, timezoneOffset>>
    /\ UNCHANGED dateSelectorOthers

\* A mousedown outside the component.
DateClickOutside ==
    /\ dateOpenPicker' = "null"
    /\ UNCHANGED <<dateAllMonths, dateSelectedRange, dateOnChange, timezoneOffset>>
    /\ UNCHANGED dateSelectorOthers

\* A click on a month button of the open picker that is not disabled.
DateClickMonth ==
    /\ dateOpenPicker # "null"
    /\ \E b \in MonthButtons(dateAllMonths) :
          /\ ~IsDisabledMonth(dateOpenPicker, dateSelectedRange,
                              HoursOfLocalDate(b.year, b.monthIndex, timezoneOffset))
          /\ dateOnChange' =
                <<handleMonthSelect(dateOpenPicker, dateSelectedRange, b.year, b.monthIndex)>>
    /\ dateSelectedRange' = dateOnChange'[1]
    /\ dateOpenPicker' = "null"
    /\ UNCHANGED <<dateAllMonths, timezoneOffset>>
    /\ UNCHANGED dateSelectorOthers

\* A click on 3M, 6M or 12M.
DateClickQuickFilter ==
    /\ Len(dateAllMonths) > 0
    /\ \E months \in QuickFilterMonths :
          dateOnChange' = <<handleQuickFilterClick(dateAllMonths, months)>>
    /\ dateSelectedRange' = dateOnChange'[1]
    /\ UNCHANGED <<dateAllMonths, dateOpenPicker, timezoneOffset>>
    /\ UNCHANGED dateSelectorOthers

DateSelectorNext ==
    \/ DateTogglePicker
    \/ DateClickOutside
    \/ DateClickMonth
    \/ DateClickQuickFilter

DateSelectorSpec == DateSelectorSpecInit /\ [][DateSelectorNext]_vars

\* ------------------------------------------------------------------------
\* Claims about DateRangeSelector (DateSelectorSpec)
\* ------------------------------------------------------------------------

\* The place of a month in allMonths, which is chronological.
PlaceOf(month) == IndexOf(dateAllMonths, month)

RangeOrdered(range) ==
    /\ PlaceOf(range[1]) >= 0
    /\ PlaceOf(range[1]) <= PlaceOf(range[2])

\* What choosing a month in a picker is to give: the month for the picker's
\* end of the range, and the other end moved to it when it would otherwise
\* be on the wrong side.
ChoiceMovesOtherEnd(picker, range, month, chosen) ==
    /\ picker = "start" =>
          /\ chosen[1] = month
          /\ chosen[2] = IF PlaceOf(month) > PlaceOf(range[2]) THEN month ELSE range[2]
    /\ picker = "end" =>
          /\ chosen[2] = month
          /\ chosen[1] = IF PlaceOf(month) < PlaceOf(range[1]) THEN month ELSE range[1]
    /\ RangeOrdered(chosen)

\* C26: from a selected range with start <= end, after any sequence of
\* month selections through the two pickers the selected range and the range
\* passed to onChange have start <= end; whichever month of the open picker
\* is chosen, a start later than the current end moves the end to that
\* month and an end earlier than the current start moves the start to it.
C26_DateRangeOrdered ==
    /\ RangeOrdered(dateSelectedRange)
    /\ \A i \in 1..Len(dateOnChange) : RangeOrdered(dateOnChange[i])
    /\ dateOpenPicker # "null" =>
          \A b \in MonthButtons(dateAllMonths) :
              ChoiceMovesOtherEnd(
                  dateOpenPicker, dateSelectedRange,
                  MonthStringOf(b.year, b.monthIndex),
                  handleMonthSelect(dateOpenPicker, dateSelectedRange,
                                    b.year, b.monthIndex))

\* A month was chosen and the range narrowed to "2023-12" .. "2024-01"; the
\* end picker is open again, and choosing "2023-10" in it would move the
\* start.
C26_Witness ==
    /\ dateOnChange = << <<Month1, Month2>> >>
    /\ dateSelectedRange = <<Month1, Month2>>
    /\ dateOpenPicker = "end"
    /\ handleMonthSelect("end", dateSelectedRange, <<"2", "0", "2", "3">>, 9)
          = <<SelectorMonths[1], SelectorMonths[1]>>

\* The months of the open picker that are not disabled never call for the
\* other end to move: isDisabled already rules out a start after the end
\* and an end before the start, in every time zone.
C26_EnabledMonthsNeedNoMove ==
    dateOpenPicker # "null" =>
        \A b \in MonthButtons(dateAllMonths) :
            ~IsDisabledMonth(dateOpenPicker, dateSelectedRange,
                             HoursOfLocalDate(b.year, b.monthIndex, timezoneOffset))
            => handleMonthSelect(dateOpenPicker, dateSelectedRange, b.year, b.monthIndex)
                 = HandleMonthSelectUnclamped(dateOpenPicker, dateSelectedRange,
                                              MonthStringOf(b.year, b.monthIndex))

\* ------------------------------------------------------------------------
\* LeaseRangeSelector
\* ------------------------------------------------------------------------

\* The useMemo of allYears: max down to min, nothing when min > max.
RECURSIVE AllYears(_, _)
AllYears(min, max) ==
    IF min > max THEN <<>> ELSE <<max>> \o AllYears(min, max - 1)

MathMax(a, b) == IF a > b THEN a ELSE b

MathMin(a, b) == IF a < b THEN a ELSE b

\* renderPicker's isDisabled of a year button.
IsDisabledYear(openPicker, selectedRange, year) ==
    \/ openPicker = "start" /\ year > selectedRange[2]
    \/ openPicker = "end" /\ year < selectedRange[1]

\* handleYearSelect passing the year for one bound and the other bound as
\* it is.
HandleYearSelectUnclamped(openPicker, selectedRange, year) ==
    IF openPicker = "start"
    THEN <<year, selectedRange[2]>>
    ELSE <<selectedRange[1], year>>

\* The range handleYearSelect passes to onChange.
handleYearSelect(openPicker, selectedRange, year) ==
    IF openPicker = "start"
    THEN <<year, MathMax(year, selectedRange[2])>>
    ELSE <<MathMin(year, selectedRange[1]), year>>

\* ------------------------------------------------------------------------
\* LeaseSelectorSpec: LeaseRangeSelector under its parent, which hands the
\* range passed to onChange back as selectedRange
\* ------------------------------------------------------------------------

\* The props min and max: allLeaseYearsDomain of a loaded data set.
LeaseDomains == { <<60, 67>>, <<22, 23>> }

\* The first render after the data has loaded: the range is the one loadData
\* set, the whole domain.
LeaseSelectorSpecInit ==
    /\ NoCall /\ HookInit /\ NoChart /\ NoParse /\ NoDateRangeSelector /\ NoRequest
    /\ \E domain \in LeaseDomains :
          /\ leaseMin = domain[1]
          /\ leaseMax = domain[2]
          /\ leaseSelectedRange = domain
    /\ leaseOpenPicker = "null"
    /\ leaseOnChange = <<>>

leaseSelectorOthers ==
    <<aggregatorVars, hookVars, chartVars, parserVars, dateSelectorVars, handlerVars>>

\* A click on the Min Lease or the Max Lease button.
LeaseTogglePicker ==
    /\ \E picker \in {"start", "end"} :
          leaseOpenPicker' = IF leaseOpenPicker = picker THEN "null" ELSE picker
    /\ UNCHANGED <<leaseMin, leaseMax, leaseSelectedRange, leaseOnChange>>
    /\ UNCHANGED leaseSelectorOthers

\* A mousedown outside the component.
LeaseClickOutside ==
    /\ leaseOpenPicker' = "null"
    /\ UNCHANGED <<leaseMin, leaseMax, leaseSelectedRange, leaseOnChange>>
    /\ UNCHANGED leaseSelectorOthers

\* A click on a year button of the open picker that is not disabled.
LeaseClickYear ==
    /\ leaseOpenPicker # "null"
    /\ \E i \in 1..Len(AllYears(leaseMin, leaseMax)) :
          /\ ~IsDisabledYear(leaseOpenPicker, leaseSelectedRange,
                             AllYears(leaseMin, leaseMax)[i])
          /\ leaseOnChange' =
                <<[picker |-> leaseOpenPicker,
                   range |-> handleYearSelect(leaseOpenPicker, leaseSelectedRange,
                                              AllYears(leaseMin, leaseMax)[i])]>>
    /\ leaseSelectedRange' = leaseOnChange'[1].range
    /\ leaseOpenPicker' = "null"
    /\ UNCHANGED <<leaseMin, leaseMax>>
    /\ UNCHANGED leaseSelectorOthers

LeaseSelectorNext ==
    \/ LeaseTogglePicker
    \/ LeaseClickOutside
    \/ LeaseClickYear

LeaseSelectorSpec == LeaseSelectorSpecInit /\ [][LeaseSelectorNext]_vars

\* ------------------------------------------------------------------------
\* Claims about LeaseRangeSelector (LeaseSelectorSpec)
\* ------------------------------------------------------------------------

\* The bound a call of onChange chose, by the picker it came from.
ChosenBound(change) ==
    IF change.picker = "start" THEN change.range[1] ELSE change.range[2]

\* What choosing a year in a picker is to give.
YearChoiceKeepsOrder(picker, range, year, chosen) ==
    /\ picker = "start" =>
          chosen = <<year, IF year > range[2] THEN year ELSE range[2]>>
    /\ picker = "end" =>
          chosen = <<IF year < range[1] THEN year ELSE range[1], year>>
    /\ chosen[1] <= chosen[2]

\* C27: from a selected range with min <= max, after any sequence of year
\* selections through the two pickers the selected range and the range
\* passed to onChange have range[0] <= range[1], and the bound newly chosen
\* is one of the years from the prop min to the prop max; whichever year of
\* the open picker is chosen, the range handed on is ordered.
C27_LeaseRangeOrdered ==
    /\ leaseSelectedRange[1] <= leaseSelectedRange[2]
    /\ \A i \in 1..Len(leaseOnChange) :
          /\ leaseOnChange[i].range[1] <= leaseOnChange[i].range[2]
          /\ ChosenBound(leaseOnChange[i]) \in leaseMin..leaseMax
    /\ leaseOpenPicker # "null" =>
          \A year \in leaseMin..leaseMax :
              YearChoiceKeepsOrder(
                  leaseOpenPicker, leaseSelectedRange, year,
                  handleYearSelect(leaseOpenPicker, leaseSelectedRange, year))

\* 63 was chosen as the min of 60 .. 67 after the max had been lowered to
\* 65, and the max picker is open.
C27_Witness ==
    /\ leaseMin = 60 /\ leaseMax = 67
    /\ leaseOnChange = <<[picker |-> "start", range |-> <<63, 65>>]>>
    /\ leaseSelectedRange = <<63, 65>>
    /\ leaseOpenPicker = "end"

\* ------------------------------------------------------------------------
\* The getHdbData handler (api/getHdbData.ts)
\* ------------------------------------------------------------------------

TOTAL_MONTHS_TO_FETCH == 12

\* The months since year 0 of new Date(latestYear, latestMonth - 1 - i, 1),
\* where [latestYear, latestMonth] = latestMonthString.split('-').map(Number):
\* the Date constructor carries a negative month into the years before.
TargetMonths(latest, i) ==
    12 * DecimalValue(latest, 1, 5) + (DecimalValue(latest, 6, 8) - 1) - i

\* `${targetDate.getFullYear()}-${String(targetDate.getMonth() + 1).padStart(2, '0')}`
MonthStringOfTarget(months) ==
    MonthStringOf(StringOfNat(months \div 12), months % 12)

\* The monthString of the loop's pass i.
TargetMonthString(latest, i) == MonthStringOfTarget(TargetMonths(latest, i))

\* What the lookup of the latest record gives: a response that is not OK, a
\* fetch or a json() that rejects, a result without a record, or a record
\* with its month.
LookupFailures == {"notOk", "throws", "noRecords"}

LatestMonths == {Month1, Month2}

\* What a monthly request gives: a response that is not OK, a fetch or a
\* json() that rejects, a result without records (or with success false),
\* or records.
MonthOutcomes == {"notOk", "throws", "noRecords", "records"}

\* The records the API serves for a month.
RecordsOfMonth(month) ==
    <<HdbResaleRecord(month, "BEDOK", "4 ROOM", Price500k, Area100, Lease90),
      HdbResaleRecord(month, "BEDOK", "3 ROOM", Price200k, Area50, Lease60)>>

\* res.status(code).json(body)
Respond(sent, status, body) == Append(sent, [status |-> status, body |-> body])

\* The request for the latest record; a monthly request is written as its
\* month.
LatestRecordRequest == <<"sort=_id desc", "limit=1">>

RequestSpecInit ==
    /\ NoCall /\ HookInit /\ NoChart
    /\ NoParse /\ NoDateRangeSelector /\ NoLeaseRangeSelector
    /\ NoRequest

handlerOthers ==
    <<aggregatorVars, hookVars, chartVars, parserVars, dateSelectorVars,
      leaseSelectorVars>>

\* The handler up to its first await: the lookup is requested.
HandlerStart ==
    /\ handlerPhase = "start"
    /\ handlerPhase' = "lookup"
    /\ pendingRequests' = {LatestRecordRequest}
    /\ UNCHANGED <<latestMonthString, loopIndex, monthRequests, monthSucceeded,
                   allFetchedRecords, responses>>
    /\ UNCHANGED handlerOthers

\* The lookup failed: the outer catch responds 500.
HandlerLookupFails ==
    /\ handlerPhase = "lookup"
    /\ \E failure \in LookupFailures :
          responses' = Respond(responses, 500, <<>>)
    /\ handlerPhase' = "done"
    /\ pendingRequests' = {}
    /\ UNCHANGED <<latestMonthString, loopIndex, monthRequests, monthSucceeded,
                   allFetchedRecords>>
    /\ UNCHANGED handlerOthers

\* The lookup gave the latest month: the loop starts and requests its first
\* month.
HandlerLookupSucceeds ==
    /\ handlerPhase = "lookup"
    /\ \E latest \in LatestMonths :
          /\ latestMonthString' = latest
          /\ monthRequests' =
                <<TargetMonthString(latest, TOTAL_MONTHS_TO_FETCH - 1)>>
    /\ loopIndex' = TOTAL_MONTHS_TO_FETCH - 1
    /\ pendingRequests' = {monthRequests'[1]}
    /\ handlerPhase' = "loop"
    /\ UNCHANGED <<monthSucceeded, allFetchedRecords, responses>>
    /\ UNCHANGED handlerOthers

\* The records pushed for an outcome of a monthly request.
PushOutcome(fetched, month, outcome) ==
    IF outcome = "records" THEN fetched \o RecordsOfMonth(month) ELSE fetched

\* A monthly request that failed ending the loop: the error reaches the
\* outer catch, which responds 500.
HandlerMonthSettlesAborting ==
    /\ handlerPhase = "loop"
    /\ \E outcome \in MonthOutcomes :
          /\ allFetchedRecords' =
                PushOutcome(allFetchedRecords, monthRequests[Len(monthRequests)], outcome)
          /\ monthSucceeded' = Append(monthSucceeded, outcome = "records")
          /\ IF outcome \in {"notOk", "throws"}
             THEN /\ responses' = Respond(responses, 500, <<>>)
                  /\ handlerPhase' = "done"
                  /\ pendingRequests' = {}
                  /\ UNCHANGED <<loopIndex, monthRequests>>
             ELSE IF loopIndex > 0
             THEN /\ loopIndex' = loopIndex - 1
                  /\ monthRequests' =
                        Append(monthRequests,
                               TargetMonthString(latestMonthString, loopIndex - 1))
                  /\ pendingRequests' = {monthRequests'[Len(monthRequests')]}
                  /\ UNCHANGED <<handlerPhase, responses>>
             ELSE /\ responses' = Respond(responses, 200, allFetchedRecords')
                  /\ handlerPhase' = "done"
                  /\ pendingRequests' = {}
                  /\ UNCHANGED <<loopIndex, monthRequests>>
    /\ UNCHANGED latestMonthString
    /\ UNCHANGED handlerOthers

\* The monthly request of pass i settled: its records, if any, are pushed,
\* and after the delay the next month is requested; after the last pass the
\* handler responds 200.
HandlerMonthSettles ==
    /\ handlerPhase = "loop"
    /\ \E outcome \in MonthOutcomes :
          /\ allFetchedRecords' =
                PushOutcome(allFetchedRecords, monthRequests[Len(monthRequests)], outcome)
          /\ monthSucceeded' = Append(monthSucceeded, outcome = "records")
    /\ IF loopIndex > 0
       THEN /\ loopIndex' = loopIndex - 1
            /\ monthRequests' =
                  Append(monthRequests,
                         TargetMonthString(latestMonthString, loopIndex - 1))
            /\ pendingRequests' = {monthRequests'[Len(monthRequests')]}
            /\ UNCHANGED <<handlerPhase, responses>>
       ELSE /\ responses' = Respond(responses, 200, allFetchedRecords')
            /\ handlerPhase' = "done"
            /\ pendingRequests' = {}
            /\ UNCHANGED <<loopIndex, monthRequests>>
    /\ UNCHANGED latestMonthString
    /\ UNCHANGED handlerOthers

RequestNext ==
    \/ HandlerStart
    \/ HandlerLookupFails
    \/ HandlerLookupSucceeds
    \/ HandlerMonthSettles

RequestSpec == RequestSpecInit /\ [][RequestNext]_vars

\* The records of the months that succeeded, in the order of the requests.
RECURSIVE RecordsOfSucceeded(_, _)
RecordsOfSucceeded(requested, succeeded) ==
    IF succeeded = <<>> THEN <<>>
    ELSE (IF Head(succeeded) THEN RecordsOfMonth(Head(requested)) ELSE <<>>)
         \o RecordsOfSucceeded(Tail(requested), Tail(succeeded))

\* The day a month starts, in days since the epoch.
DaysAt(month) == DateGetTime(month).v

\* The k-th request is for the month 12 - k months before the latest one.
RequestedOldestFirst ==
    \A k \in 1..Len(monthRequests) :
        /\ k > 1 =>
              /\ DaysAt(monthRequests[k]) - DaysAt(monthRequests[k - 1]) >= 28
              /\ DaysAt(monthRequests[k]) - DaysAt(monthRequests[k - 1]) <= 31
        /\ DaysAt(latestMonthString) - DaysAt(monthRequests[k])
              >= 28 * (TOTAL_MONTHS_TO_FETCH - k)
        /\ DaysAt(latestMonthString) - DaysAt(monthRequests[k])
              <= 31 * (TOTAL_MONTHS_TO_FETCH - k)

\* A month is requested only once every earlier request has settled.
RequestedOneAtATime ==
    /\ Cardinality(pendingRequests) <= 1
    /\ Len(monthSucceeded) + Cardinality(pendingRequests \ {LatestRecordRequest})
          = Len(monthRequests)

\* The records of the body are in month order.
InMonthOrder(body) ==
    \A k \in 1..Len(body) :
        k > 1 => DaysAt(body[k - 1].month) <= DaysAt(body[k].month)

\* C28: once the latest month is known, the handler requests the 12 months
\* one at a time from the oldest to the latest; a month whose request is not
\* OK, throws or gives no records is skipped and the loop goes on; the
\* handler responds exactly once, with 200 and the records of the months
\* that succeeded in month order, and with 500 only when the lookup of the
\* latest month failed.
C28_HandlerRespondsOnce ==
    /\ RequestedOneAtATime
    /\ latestMonthString # UndefinedText => RequestedOldestFirst
    /\ Len(responses) <= 1
    /\ (handlerPhase = "done") <=> (Len(responses) = 1)
    /\ (handlerPhase = "done" /\ latestMonthString # UndefinedText) =>
          /\ Len(monthRequests) = TOTAL_MONTHS_TO_FETCH
          /\ Len(monthSucceeded) = TOTAL_MONTHS_TO_FETCH
          /\ monthRequests[TOTAL_MONTHS_TO_FETCH] = latestMonthString
          /\ responses[1].status = 200
          /\ responses[1].body = RecordsOfSucceeded(monthRequests, monthSucceeded)
          /\ InMonthOrder(responses[1].body)
    /\ (handlerPhase = "done" /\ latestMonthString = UndefinedText) =>
          /\ monthRequests = <<>>
          /\ responses[1].status = 500
    /\ \A k \in 1..Len(responses) :
          responses[k].status = 500 => latestMonthString = UndefinedText

\* The handler has responded 200 after a loop across the turn of the year in
\* which the oldest month and the latest one failed and others succeeded.
C28_Witness ==
    /\ handlerPhase = "done"
    /\ latestMonthString = Month2
    /\ monthRequests[1] = <<"2", "0", "2", "3", "-", "0", "2">>
    /\ monthRequests[11] = Month1
    /\ ~monthSucceeded[1]
    /\ monthSucceeded[2]
    /\ monthSucceeded[11]
    /\ ~monthSucceeded[12]
    /\ responses[1].status = 200
    /\ responses[1].body = RecordsOfSucceeded(monthRequests, monthSucceeded)
    /\ Len(responses[1].body) > 4

\* The handler has responded 500 after the lookup failed.
C28_WitnessLookupFailed ==
    /\ handlerPhase = "done"
    /\ responses = <<[status |-> 500, body |-> <<>>]>>
    /\ monthRequests = <<>>

\* ------------------------------------------------------------------------
\* useHdbData: records without a lease
\* ------------------------------------------------------------------------

HasLease(r) == parseRemainingLeaseToYears(r.remaining_lease) # null

\* The records whose remaining-lease text parses.
WithLease(raw) == SelectSeq(raw, HasLease)

\* The records that pass the town, flat-type and date filters in force,
\* whatever their lease.
PassingOtherFilters(raw) ==
    LET Passes(r) ==
            /\ selectedTowns = <<>> \/ Includes(selectedTowns, r.town)
            /\ selectedFlatTypes = <<>> \/ Includes(selectedFlatTypes, r.flat_type)
            /\ DaysAt(r.month) >= DaysAt(selectedDateRange[1])
            /\ DaysAt(r.month) <= DaysAt(selectedDateRange[2])
    IN  SelectSeq(raw, Passes)

\* C29: a record whose remaining-lease text is absent or does not parse is
\* never in filteredRecords, whatever the lease range selected, the default
\* full range included, and what the render shows (summary, line chart,
\* price bands, box plot) is what it would show had the record never been
\* loaded.
C29_UnparsedLeaseNeverFiltered ==
    /\ \A k \in 1..Len(Aggregates(Scope, stableDomains).filteredRecords) :
          HasLease(Aggregates(Scope, stableDomains).filteredRecords[k])
    /\ Aggregates(Scope, stableDomains) =
          AggregatesOf(FilteredRecords(WithLease(rawRecords), selectedTowns,
                                       selectedFlatTypes, selectedDateRange,
                                       selectedLeaseRange),
                       Aggregates(Scope, stableDomains).chartXDomain,
                       boxPlotMetric)

\* The default full lease range is selected, a record without a lease passes
\* every other filter, and the records shown are the others that pass them.
C29_Witness ==
    /\ Len(rawRecords) > 0
    /\ selectedLeaseRange = stableDomains.allLeaseYearsDomain
    /\ Len(WithLease(PassingOtherFilters(rawRecords)))
          < Len(PassingOtherFilters(rawRecords))
    /\ Len(Aggregates(Scope, stableDomains).filteredRecords) > 0
    /\ Aggregates(Scope, stableDomains).filteredRecords
          = WithLease(PassingOtherFilters(rawRecords))
    /\ Aggregates(Scope, stableDomains).summaryStats.count
          = Len(WithLease(PassingOtherFilters(rawRecords)))

\* ------------------------------------------------------------------------
\* useHdbData: the box plot inside the stable Y axis
\* ------------------------------------------------------------------------

\* A value of the box plot (held times 4) is at most the upper bound of a
\* domain computed from records (held per 400).
WithinYDomain(value, domain) == (domain.per \div 4) * value <= domain.hi

\* C30: for any filter selection and any box-plot metric, every max and
\* every outlier value of processedData, computed from the filtered records,
\* is at most the upper bound of yDomain, computed from the full records.
C30_BoxPlotWithinYDomain ==
    /\ stableDomains.yDomain.literal =>
          Aggregates(Scope, stableDomains).processedData = <<>>
    /\ ~stableDomains.yDomain.literal =>
          \A k \in 1..Len(Aggregates(Scope, stableDomains).processedData) :
              /\ WithinYDomain(Aggregates(Scope, stableDomains).processedData[k].max,
                               stableDomains.yDomain)
              /\ \A j \in 1..Len(Aggregates(Scope, stableDomains).processedData[k].outliers) :
                    WithinYDomain(
                        Aggregates(Scope, stableDomains).processedData[k].outliers[j].price,
                        stableDomains.yDomain)

\* A date range that leaves out the month of the dearest records is in
\* force and the metric is not the initial one: the box drawn ends well
\* below the top of the axis, which is still the one of the full records.
C30_Witness ==
    /\ Len(Aggregates(Scope, stableDomains).filteredRecords) > 0
    /\ Len(Aggregates(Scope, stableDomains).filteredRecords) < Len(rawRecords)
    /\ boxPlotMetric = "price_psf"
    /\ Len(Aggregates(Scope, stableDomains).processedData) = 1
    /\ 105 * Aggregates(Scope, stableDomains).processedData[1].max
          < stableDomains.yDomain.hi
    /\ stableDomains.yDomain = calculateGlobalYDomain(rawRecords, boxPlotMetric)

\* The box plot of the filtered records has outliers, drawn inside the axis.
C30_WitnessOutliers ==
    /\ Len(Aggregates(Scope, stableDomains).filteredRecords) < Len(rawRecords)
    /\ \E k \in 1..Len(Aggregates(Scope, stableDomains).processedData) :
          Len(Aggregates(Scope, stableDomains).processedData[k].outliers) > 0

====
